---------------------------- MODULE Spec2Model ----------------------------
(***************************************************************************)
(* State-machine models of the power-libperfmgr channel transport          *)
(* (SessionChannel, ChannelGroup, ChannelManager), of SessionRecords, and  *)
(* of the pixelstats collector loop and its battery reporters.             *)
(*                                                                         *)
(* The subsystems share no runtime state, so each has a specification of   *)
(* its own over its own variables:                                         *)
(*   Spec         ChannelManager: getChannelConfig / closeChannel          *)
(*   SpecDispatch ChannelGroup::runChannelGroup, the message loop of one   *)
(*                batch                                                    *)
(*   SpecGroup    ChannelGroup: dispatch thread, clients, destructor       *)
(*   SpecGroupFair  the same under a fair scheduler                        *)
(*   SpecRecords  SessionRecords: addReportedDurations / resetRecords,     *)
(*                with a target duration that changes                      *)
(*   SpecFrames   SessionRecords: frames reported with their time stamps   *)
(*   SpecCollect  SysfsCollector::collect, the timer loop                  *)
(*   SpecEEPROM   BatteryEEPROMReporter: checkAndReport and                *)
(*                checkAndReportValidation                                 *)
(*   SpecFG       BatteryFGReporter::reportFGEvent                         *)
(***************************************************************************)
EXTENDS Integers, Sequences, FiniteSets, TLC

VARIABLES
    \* ---- ChannelManager ----
    mChannelMap,      \* std::unordered_map<int64_t,int64_t>: key -> value
    mChannelGroups,   \* std::map<int32_t, ChannelGroup>: groupId -> group
    aborted,          \* the process hit LOG_ALWAYS_FATAL or an uncaught throw
    lastRet,          \* what the last manager call returned
    registered,       \* history: identities passed to getChannelConfig and not closed since
    allocated,        \* history: group ids allocated since the group map was last empty
    limits,           \* environment: the envelope of calls explored, fixed by Init
    nCloses,          \* environment: successful closeChannel calls so far
    nInvalid          \* environment: channel queues that failed to construct

mgrVars == <<mChannelMap, mChannelGroups, aborted, lastRet, registered, allocated,
             limits, nCloses, nInvalid>>

VARIABLES
    \* ---- ChannelGroup objects, indexed by the place they are built in ----
    life,             \* "none" | "live" | "destructing" | "joining": the object and its destructor
    mDestructing,     \* ChannelGroup::mDestructing
    grp,              \* mGroupId, mLiveChannels, mChannels
    flag,             \* the event flag word of mFlagQueue
    queue,            \* per slot: the channel's message queue, as the client shares it
    thr,              \* the dispatch thread: its position and its locals
    calls,            \* what the thread called on sessions since its last queue read
    blocklist,        \* static std::set<uid_t> blocklist of runChannelGroup
    glimits,          \* environment: the envelope explored, fixed by Init
    nWrites,          \* environment: client writes so far
    nOwner            \* environment: owner calls (create, remove, destroy) so far

grpVars == <<life, mDestructing, grp, flag, queue, thr, calls, blocklist, glimits,
             nWrites, nOwner>>

VARIABLES
    \* ---- SessionRecords ----
    records,          \* the SessionRecords object: its members
    framesInBuckets,  \* the caller's FrameBuckets after the last addReportedDurations
    added,            \* history: totalDurationUs of the durations added since
                      \* construction or the last resetRecords, in order
    addedRecords,     \* history: the CycleRecord written for each of them, and the
                      \* target it was added with
    rlimits,          \* environment: the envelope of calls explored, fixed by Init
    clockNs,          \* environment: the time stamp of the last frame of a session
                      \* that reports frames as they end
    nAdds,            \* environment: durations passed to addReportedDurations so far
    nResets           \* environment: resetRecords calls so far

recVars == <<records, framesInBuckets, added, addedRecords, rlimits, clockNs, nAdds,
             nResets>>

VARIABLES
    \* ---- pixelstats: SysfsCollector::collect and the battery reporters ----
    collecting,       \* the loop of SysfsCollector::collect is running
    wake_5min,        \* the locals of collect that count wakes
    wake_hours,
    wake_days,
    elapsedTicks,     \* history: expirations the timer reported since the loop was entered
    expireCount,      \* history: expire.count of the last read, 0 before the first
    fired,            \* history: calls made by the last loop iteration
    bootSecs,         \* environment: seconds of CLOCK_BOOTTIME
    monoSecs,         \* environment: seconds of CLOCK_MONOTONIC
    battery_EEPROM_reporter_,  \* BatteryEEPROMReporter: report_time_, last_hv_check_
    eepromCalls,      \* history: the last call on the reporter and the uploads so far
    ab_trigger_time_, \* BatteryFGReporter::ab_trigger_time_
    fgCall,           \* history: the last reportFGEvent call
    nElapses          \* environment: times the clocks were advanced between and in calls

statVars == <<collecting, wake_5min, wake_hours, wake_days, elapsedTicks, expireCount,
              fired, bootSecs, monoSecs, battery_EEPROM_reporter_, eepromCalls,
              ab_trigger_time_, fgCall, nElapses>>

VARIABLES
    \* ---- pixelstats: the areas SysfsCollector collects, by configuration ----
    configData,       \* the JSON configuration: for each key no member, or its string
    pass,             \* history: the last pass made (logOnce, logPerHour, logPerDay)
    invoked           \* history: the reporters that pass invoked

cfgVars == <<configData, pass, invoked>>

VARIABLES
    \* ---- pixelstats: the lines of the EEPROM history file ----
    historyLines,     \* the lines of the EEPROM history file
    atoms             \* history: the slots that call reported an atom for

lineVars == <<historyLines, atoms>>

VARIABLES
    \* ---- thermal: ThermalPredictionsHelper ----
    predictor_sensors_,   \* name -> PredictorSensorInfo
    predicted_sensors_,   \* name -> PredictedSensorInfo
    thermalNow,           \* boot_clock::now(), in units of half a millisecond
    readCall,             \* history: the readSensor call just made, if any
    nUpdates,             \* updateSensor calls that wrote a sample
    nAdvances             \* times the boot clock was advanced

thermVars == <<predictor_sensors_, predicted_sensors_, thermalNow, readCall,
               nUpdates, nAdvances>>

VARIABLES
    \* ---- thermal: VirtualTempEstimator ----
    estimators,           \* the estimator instances, by number
    estimatorTrap         \* the process was ended by a trap

estVars == <<estimators, estimatorTrap>>

VARIABLES
    \* ---- power: SupportManager ----
    IPowerVersion,        \* IPower::version
    hintManager,          \* the hints and ADPF profiles HintManager has loaded
    supportCall           \* history: the last query and its result

supVars == <<IPowerVersion, hintManager, supportCall>>

VARIABLES
    \* ---- power: FrameBuckets ----
    bucketObjs,           \* the FrameBuckets objects, by id
    addUpCall,            \* history: the last addUpNewFrames and the objects before it
    nAddUps               \* history: calls of addUpNewFrames made

bktVars == <<bucketObjs, addUpCall, nAddUps>>

VARIABLES
    \* ---- calls of several threads ----
    estCalls,             \* the Initialize and Estimate call of each thread
    mgrCalls              \* the ChannelManager call of each thread

lockVars == <<estCalls, mgrCalls>>

restVars == <<cfgVars, lineVars, thermVars, estVars, supVars, bktVars, lockVars>>

vars == <<mgrVars, grpVars, recVars, statVars, restVars>>

(***************************************************************************)
(* Bounds of the model.  The manager is explored in two envelopes: one     *)
(* that fills a group and goes past it, and one that churns few            *)
(* identities, with queues that fail to construct.                         *)
(***************************************************************************)
FillIds == 17        \* identities of the filling envelope
FillCloses == 2      \* successful closeChannel calls of the filling envelope
ChurnIds == 4        \* identities of the churning envelope
ChurnCloses == 4     \* successful closeChannel calls of the churning envelope
ChurnInvalid == 1    \* queue construction failures of the churning envelope
NumTgids == 5        \* identities are laid out on a NumTgids-wide grid

FillLimits == [ids |-> FillIds, closes |-> FillCloses, invalid |-> 0]
ChurnLimits == [ids |-> ChurnIds, closes |-> ChurnCloses, invalid |-> ChurnInvalid]
MaxIds == IF FillIds > ChurnIds THEN FillIds ELSE ChurnIds

(***************************************************************************)
(* AdpfTypes.h                                                             *)
(***************************************************************************)
kMaxChannels == 16

Slots == 0 .. (kMaxChannels - 1)

\* A uint32_t flag word is the set of its set bit positions.
Bits32 == 0 .. 31
kWriteBits == 0 .. 15        \* 0x0000ffff
kReadBits == 16 .. 31        \* 0xffff0000
AllBits == Bits32            \* 0xffffffff

\* 1u << n
Shl1(n) == IF n \in Bits32 THEN {n} ELSE {}

\* std::countr_zero of a flag word: 32 for an empty word
countr_zero(w) == IF w = {} THEN 32 ELSE CHOOSE b \in w : \A c \in w : b <= c

(***************************************************************************)
(* The identities of the environment: (tgid, uid) pairs on a grid, so that *)
(* distinct identities share a tgid or share a uid.                        *)
(***************************************************************************)
Tgid(i) == 4000 + (i % NumTgids)
Uid(i) == 3000 + (i \div NumTgids)

(***************************************************************************)
(* ChannelManager.h: the two unions.  An int64_t is the pair of its two    *)
(* int32_t words, which is what the anonymous struct member overlays.      *)
(***************************************************************************)
ChannelMapKeyTgidOnly(tgid, uid) == <<tgid, 0>>

ChannelMapKey(tgid, uid) == <<tgid, uid>>
ChannelMapValue(groupId, offset) == <<groupId, offset>>
groupIdOf(value) == value[1]
offsetOf(value) == value[2]

(***************************************************************************)
(* SessionChannel                                                          *)
(***************************************************************************)
Null == [null |-> TRUE]

SessionChannelBadMask(tgid, uid, id, offset, valid) ==
    [mTgid |-> tgid, mUid |-> uid, mId |-> id,
     mReadMask |-> Shl1(offset), mWriteMask |-> Shl1(offset),
     valid |-> valid]

SessionChannel(tgid, uid, id, offset, valid) ==
    [mTgid |-> tgid, mUid |-> uid, mId |-> id,
     mReadMask |-> Shl1(offset + 16), mWriteMask |-> Shl1(offset),
     valid |-> valid]

\* getReadBitmask that gives the bit the client wakes the thread with
getReadBitmaskOfWrites(channel) == channel.mWriteMask

getReadBitmask(channel) == channel.mReadMask
getWriteBitmask(channel) == channel.mWriteMask
isValid(channel) == channel.valid

(***************************************************************************)
(* ChannelGroup: the slot array and the live count.  The operations return *)
(* the group as the call leaves it; fatal is LOG_ALWAYS_FATAL_IF firing.   *)
(***************************************************************************)
NewGroup(id) ==
    [mGroupId |-> id, mLiveChannels |-> 0, mChannels |-> [s \in Slots |-> Null]]

GroupChannelCount(group) == group.mLiveChannels

\* the scan of createChannel: the first empty slot, kMaxChannels if none
FirstFreeSlot(group) ==
    IF \E s \in Slots : group.mChannels[s] = Null
    THEN CHOOSE s \in Slots :
            /\ group.mChannels[s] = Null
            /\ \A t \in Slots : group.mChannels[t] = Null => s <= t
    ELSE kMaxChannels

createChannel(group, tgid, uid, valid) ==
    LET slot == FirstFreeSlot(group)
        channelId == ChannelMapValue(group.mGroupId, slot)
    IN  IF slot = kMaxChannels
        THEN [fatal |-> TRUE, group |-> group, channel |-> Null]
        ELSE LET channel == SessionChannel(tgid, uid, channelId, slot, valid)
             IN  [fatal |-> FALSE,
                  group |-> [group EXCEPT !.mLiveChannels = @ + 1,
                                          !.mChannels[slot] = channel],
                  channel |-> channel]

removeChannelKeepCount(group, slot) ==
    IF group.mChannels[slot] = Null
    THEN [ok |-> FALSE, group |-> group]
    ELSE [ok |-> TRUE, group |-> [group EXCEPT !.mChannels[slot] = Null]]

removeChannel(group, slot) ==
    IF group.mChannels[slot] = Null
    THEN [ok |-> FALSE, group |-> group]
    ELSE [ok |-> TRUE,
          group |-> [group EXCEPT !.mChannels[slot] = Null,
                                  !.mLiveChannels = @ - 1]]

getChannel(group, slot) ==
    IF group.mChannels[slot] = Null
    THEN [fatal |-> TRUE, channel |-> Null]
    ELSE [fatal |-> FALSE, channel |-> group.mChannels[slot]]

(***************************************************************************)
(* ChannelManager                                                          *)
(***************************************************************************)
GroupIds == DOMAIN mChannelGroups

MaxOf(S) == CHOOSE x \in S : \A y \in S : y <= x
MinOf(S) == CHOOSE x \in S : \A y \in S : x <= y

\* the scan of getOrCreateChannel over the ordered map: the lowest group id
\* with a free slot, -1 if none
FindGroupFirst(groups) ==
    IF DOMAIN groups = {} THEN -1 ELSE MinOf(DOMAIN groups)

FindGroupAny(groups) ==
    LET free == {g \in DOMAIN groups : GroupChannelCount(groups[g]) < kMaxChannels}
    IN  IF free = {} THEN -1 ELSE MaxOf(free)

FindGroup(groups) ==
    LET free == {g \in DOMAIN groups : GroupChannelCount(groups[g]) < kMaxChannels}
    IN  IF free = {} THEN -1 ELSE MinOf(free)

NewGroupIdNoIncrement(groups) ==
    IF DOMAIN groups = {} THEN 0 ELSE MaxOf(DOMAIN groups)

NewGroupId(groups) ==
    IF DOMAIN groups = {} THEN 0 ELSE MaxOf(DOMAIN groups) + 1

KeyPresent(map, key) == key \in DOMAIN map

\* getOrCreateChannel with mChannelMap = map and mChannelGroups = groups:
\* the map and the groups as it leaves them, and the channel it returns.
\* fatal: LOG_ALWAYS_FATAL_IF fired, or std::map::at threw.
getOrCreateChannel(map, groups, tgid, uid, valid) ==
    LET key == ChannelMapKey(tgid, uid)
    IN  IF KeyPresent(map, key)
        THEN LET value == map[key]
             IN  IF groupIdOf(value) \notin DOMAIN groups
                 THEN [fatal |-> TRUE, map |-> map, groups |-> groups, channel |-> Null,
                       created |-> FALSE, newGroup |-> FALSE,
                       groupId |-> groupIdOf(value)]
                 ELSE LET got == getChannel(groups[groupIdOf(value)], offsetOf(value))
                      IN  [fatal |-> got.fatal, map |-> map, groups |-> groups,
                           channel |-> got.channel, created |-> FALSE,
                           newGroup |-> FALSE, groupId |-> groupIdOf(value)]
        ELSE LET found == FindGroup(groups)
                 groupId == IF found = -1 THEN NewGroupId(groups) ELSE found
                 \* emplace leaves a group that already has this id alone
                 group == IF groupId \in DOMAIN groups
                          THEN groups[groupId] ELSE NewGroup(groupId)
                 made == createChannel(group, tgid, uid, valid)
             IN  [fatal |-> made.fatal,
                  map |-> IF made.fatal THEN map
                          ELSE [k \in DOMAIN map \cup {key} |->
                                   IF k = key THEN made.channel.mId ELSE map[k]],
                  groups |-> [g \in DOMAIN groups \cup {groupId} |->
                                 IF g = groupId THEN made.group ELSE groups[g]],
                  channel |-> made.channel, created |-> ~made.fatal,
                  newGroup |-> (found = -1), groupId |-> groupId]

getGroupCount == Cardinality(DOMAIN mChannelGroups)

RECURSIVE SumLive(_, _)
SumLive(groups, ids) ==
    IF ids = {} THEN 0
    ELSE LET g == MinOf(ids)
         IN  GroupChannelCount(groups[g]) + SumLive(groups, ids \ {g})

getChannelCount == SumLive(mChannelGroups, DOMAIN mChannelGroups)

MgrInit ==
    /\ mChannelMap = <<>>
    /\ mChannelGroups = <<>>
    /\ aborted = FALSE
    /\ lastRet = [op |-> "none", ok |-> TRUE, created |-> FALSE]
    /\ registered = {}
    /\ allocated = <<>>
    /\ limits \in {FillLimits, ChurnLimits}
    /\ nCloses = 0
    /\ nInvalid = 0

\* the manager, untouched, in the specifications of the other components
MgrIdle ==
    /\ mChannelMap = <<>>
    /\ mChannelGroups = <<>>
    /\ aborted = FALSE
    /\ lastRet = [op |-> "none", ok |-> TRUE, created |-> FALSE]
    /\ registered = {}
    /\ allocated = <<>>
    /\ limits = [ids |-> 0, closes |-> 0, invalid |-> 0]
    /\ nCloses = 0
    /\ nInvalid = 0

\* bool getChannelConfig(tgid, uid, config), for identity i; valid is whether
\* the queue of a channel this call constructs is valid
getChannelConfig(i, valid) ==
    LET r == getOrCreateChannel(mChannelMap, mChannelGroups, Tgid(i), Uid(i), valid)
        ok == ~r.fatal /\ isValid(r.channel)
    IN  /\ ~aborted
        /\ mChannelMap' = r.map
        /\ mChannelGroups' = r.groups
        /\ aborted' = (r.fatal \/ (ok /\ groupIdOf(r.channel.mId) \notin DOMAIN r.groups))
        /\ lastRet' = [op |-> "getChannelConfig", ok |-> ok, created |-> r.created]
        /\ registered' = registered \cup {i}
        /\ allocated' = IF r.newGroup
                        THEN Append(allocated, r.groupId)
                        ELSE allocated
        /\ nInvalid' = IF r.created /\ ~valid THEN nInvalid + 1 ELSE nInvalid
        /\ UNCHANGED <<limits, nCloses>>

\* The environment names a new identity by the lowest number not in use.
GetChannelConfig ==
    \E i \in 1 .. MaxIds, valid \in BOOLEAN :
        /\ i <= limits.ids
        /\ i \in registered \/ \A j \in 1 .. (i - 1) : j \in registered
        /\ (~valid) => nInvalid < limits.invalid
        /\ getChannelConfig(i, valid)
        /\ UNCHANGED <<grpVars, recVars, statVars, restVars>>

\* closeChannel's erase of a group left without channels
EraseNever(groups, groupId, group) == [groups EXCEPT ![groupId] = group]

EraseIfEmpty(groups, groupId, group) ==
    IF GroupChannelCount(group) = 0
    THEN [g \in DOMAIN groups \ {groupId} |-> groups[g]]
    ELSE [groups EXCEPT ![groupId] = group]

\* bool closeChannel(tgid, uid), for identity i
closeChannel(i) ==
    LET key == ChannelMapKey(Tgid(i), Uid(i))
        value == mChannelMap[key]
        removed == removeChannel(mChannelGroups[groupIdOf(value)], offsetOf(value))
        ok == /\ key \in DOMAIN mChannelMap
              /\ groupIdOf(value) \in DOMAIN mChannelGroups
              /\ removed.ok
        groups1 == EraseIfEmpty(mChannelGroups, groupIdOf(value), removed.group)
    IN  /\ ~aborted
        /\ IF ok
           THEN /\ mChannelGroups' = groups1
                /\ mChannelMap' = [k \in DOMAIN mChannelMap \ {key} |-> mChannelMap[k]]
                /\ registered' = registered \ {i}
                /\ allocated' = IF DOMAIN groups1 = {} THEN <<>> ELSE allocated
                /\ nCloses' = nCloses + 1
           ELSE UNCHANGED <<mChannelGroups, mChannelMap, registered, allocated, nCloses>>
        /\ lastRet' = [op |-> "closeChannel", ok |-> ok, created |-> FALSE]
        /\ UNCHANGED <<aborted, limits, nInvalid>>

CloseChannel ==
    \E i \in 1 .. MaxIds :
        /\ i <= limits.ids
        /\ nCloses < limits.closes
        /\ closeChannel(i)
        /\ UNCHANGED <<grpVars, recVars, statVars, restVars>>

(***************************************************************************)
(* ChannelGroup: the dispatch thread (runChannelGroup), the destructor, the *)
(* owner's calls and the clients of the channels.                          *)
(*                                                                         *)
(* mGroupMutex is held by the thread exactly at the positions "scan",      *)
(* "msg" and "coalesce"; createChannel and removeChannel take it for the   *)
(* whole call, so they run only when the thread is elsewhere.              *)
(***************************************************************************)
NumGroups == 1          \* places a ChannelGroup can be built in
Groups == 0 .. (NumGroups - 1)

kFMQQueueSize == 32

Sessions == {1, 2}      \* the session ids PowerSessionManager::getSession resolves
NoSession == 9          \* a session id it does not resolve

getSession(sessionID) == sessionID \in Sessions

Tags == {"hint", "targetDuration", "workDuration", "mode", "other"}

Msg(sessionID, tag, data) == [sessionID |-> sessionID, tag |-> tag, data |-> data]

\* the messages the clients send
WorkMsgs == {Msg(s, "workDuration", d) : s \in Sessions, d \in {1, 2}}
Alphabet ==
    WorkMsgs \cup {Msg(NoSession, "workDuration", 1)}
             \cup {Msg(1, t, 1) : t \in Tags \ {"workDuration"}}

EmptyQueue == [msgs |-> <<>>, corrupt |-> FALSE]

\* MessageQueue::availableToRead: what the shared pointers say, which is
\* garbage above the capacity once the client has tampered with them
availableToRead(q) == IF q.corrupt THEN kFMQQueueSize + 1 ELSE Len(q.msgs)

\* MessageQueue::read(data, n): fails on pointers that are out of range
readOk(q, n) == ~q.corrupt /\ n <= Len(q.msgs)

\* the thread before it runs; inserted is history: the uids this thread has
\* put in the blocklist
IdleThread ==
    [pc |-> "none", flagState |-> {}, channelNum |-> 0, messages |-> <<>>,
     messageIndex |-> 0, durations |-> <<>>, runSession |-> 0, synced |-> FALSE,
     inserted |-> {}]

GrpIdle ==
    /\ life = [g \in Groups |-> "none"]
    /\ mDestructing = [g \in Groups |-> FALSE]
    /\ grp = [g \in Groups |-> NewGroup(g)]
    /\ flag = [g \in Groups |-> {}]
    /\ queue = [g \in Groups |-> [s \in Slots |-> EmptyQueue]]
    /\ thr = [g \in Groups |-> IdleThread]
    /\ calls = [g \in Groups |-> <<>>]
    /\ blocklist = {}
    /\ glimits = [groups |-> 0, ids |-> 0, writes |-> 0, owner |-> 0, batches |-> {},
                  tamper |-> FALSE]
    /\ nWrites = 0
    /\ nOwner = 0

\* What an unsynchronised read of the plain bool mDestructing can return: the
\* destructor's store races with it until the thread has consumed the
\* destructor's wake in EventFlag::wait (an atomic read-modify-write of the
\* flag word, which orders the store before everything after it).
SeenDestructing(g) ==
    IF ~mDestructing[g] THEN {FALSE}
    ELSE IF thr[g].synced THEN {TRUE}
    ELSE {TRUE, FALSE}

\* a thread that keeps mGroupMutex while it waits in EventFlag::wait
MutexHeldWhileWaiting(g) == thr[g].pc \in {"wait", "scan", "msg", "coalesce"}

MutexHeldByThread(g) == thr[g].pc \in {"scan", "msg", "coalesce"}

\* ChannelGroup::ChannelGroup(id): the flag queue and the thread; the owner
\* builds in the first free place
Construct(g) ==
    /\ life[g] = "none"
    /\ \A h \in Groups : h < g => life[h] # "none"
    /\ g < glimits.groups
    /\ nOwner < glimits.owner
    /\ nOwner' = nOwner + 1
    /\ life' = [life EXCEPT ![g] = "live"]
    /\ mDestructing' = [mDestructing EXCEPT ![g] = FALSE]
    /\ grp' = [grp EXCEPT ![g] = NewGroup(g)]
    /\ flag' = [flag EXCEPT ![g] = {}]
    /\ queue' = [queue EXCEPT ![g] = [s \in Slots |-> EmptyQueue]]
    /\ thr' = [thr EXCEPT ![g] = [IdleThread EXCEPT !.pc = "start"]]
    /\ calls' = [calls EXCEPT ![g] = <<>>]
    /\ UNCHANGED <<blocklist, glimits, nWrites, mgrVars, recVars, statVars, restVars>>

\* the identities of the channels' clients: 1 and 2 are two processes of one uid
ClientTgid(i) == 100 + i
ClientUid(i) == 200 + ((i - 1) \div 2)

\* identity i holds a channel of group g
HasChannel(g, i) ==
    \E s \in Slots : /\ grp[g].mChannels[s] # Null
                     /\ grp[g].mChannels[s].mTgid = ClientTgid(i)

\* the owner calls createChannel(tgid, uid) for the first identity without a
\* channel (a ChannelManager never asks twice for one identity)
CreateChannel(g, i) ==
    LET made == createChannel(grp[g], ClientTgid(i), ClientUid(i), TRUE)
    IN  /\ life[g] = "live"
        /\ ~MutexHeldByThread(g)
        /\ i <= glimits.ids
        /\ nOwner < glimits.owner
        /\ ~made.fatal
        /\ ~HasChannel(g, i)
        /\ \A j \in 1 .. (i - 1) : HasChannel(g, j)
        /\ nOwner' = nOwner + 1
        /\ grp' = [grp EXCEPT ![g] = made.group]
        /\ queue' = [queue EXCEPT ![g][offsetOf(made.channel.mId)] = EmptyQueue]
        /\ UNCHANGED <<life, mDestructing, flag, thr, calls, blocklist, glimits,
                       nWrites, mgrVars, recVars, statVars, restVars>>

\* the owner calls removeChannel(slot)
RemoveChannel(g, slot) ==
    LET removed == removeChannel(grp[g], slot)
    IN  /\ life[g] = "live"
        /\ ~MutexHeldByThread(g)
        /\ nOwner < glimits.owner
        /\ removed.ok
        /\ nOwner' = nOwner + 1
        /\ grp' = [grp EXCEPT ![g] = removed.group]
        /\ UNCHANGED <<life, mDestructing, flag, queue, thr, calls, blocklist,
                       glimits, nWrites, mgrVars, recVars, statVars, restVars>>

\* ~ChannelGroup, first statement: mDestructing = true
DestructorBegin(g) ==
    /\ life[g] = "live"
    /\ nOwner < glimits.owner
    /\ nOwner' = nOwner + 1
    /\ life' = [life EXCEPT ![g] = "destructing"]
    /\ mDestructing' = [mDestructing EXCEPT ![g] = TRUE]
    /\ UNCHANGED <<grp, flag, queue, thr, calls, blocklist, glimits, nWrites, mgrVars, recVars, statVars, restVars>>

\* the word the destructor's wake leaves in the flag
DestructorWakeReadBits(word) == word \cup kReadBits

DestructorWakeWord(word) == word \cup AllBits

\* ~ChannelGroup: flag->wake(0xffffffff)
DestructorWake(g) ==
    /\ life[g] = "destructing"
    /\ life' = [life EXCEPT ![g] = "joining"]
    /\ flag' = [flag EXCEPT ![g] = DestructorWakeWord(flag[g])]
    /\ UNCHANGED <<mDestructing, grp, queue, thr, calls, blocklist, glimits,
                   nWrites, nOwner, mgrVars, recVars, statVars, restVars>>

\* ~ChannelGroup: mGroupThread.join() returns, the members are destroyed
DestructorJoin(g) ==
    /\ life[g] = "joining"
    /\ thr[g].pc = "exited"
    /\ life' = [life EXCEPT ![g] = "none"]
    /\ mDestructing' = [mDestructing EXCEPT ![g] = FALSE]
    /\ grp' = [grp EXCEPT ![g] = NewGroup(g)]
    /\ flag' = [flag EXCEPT ![g] = {}]
    /\ queue' = [queue EXCEPT ![g] = [s \in Slots |-> EmptyQueue]]
    /\ thr' = [thr EXCEPT ![g] = IdleThread]
    /\ calls' = [calls EXCEPT ![g] = <<>>]
    /\ UNCHANGED <<blocklist, glimits, nWrites, nOwner, mgrVars, recVars, statVars, restVars>>

\* runChannelGroup up to the loop: createEventFlag under the mutex, setpriority
ThreadStart(g) ==
    /\ thr[g].pc = "start"
    /\ thr' = [thr EXCEPT ![g].pc = "loop"]
    /\ UNCHANGED <<life, mDestructing, grp, flag, queue, calls, blocklist, glimits,
                   nWrites, nOwner, mgrVars, recVars, statVars, restVars>>

\* while (!mDestructing) { messages.clear(); ...
ThreadLoop(g) ==
    /\ thr[g].pc = "loop"
    /\ \E d \in SeenDestructing(g) :
          thr' = [thr EXCEPT ![g].pc = IF d THEN "exited" ELSE "wait",
                             ![g].messages = IF d THEN @ ELSE <<>>]
    /\ UNCHANGED <<life, mDestructing, grp, flag, queue, calls, blocklist, glimits,
                   nWrites, nOwner, mgrVars, recVars, statVars, restVars>>

\* flag->wait(kWriteBits, &flagState, 0, true): blocks until a write bit is
\* set, takes the set write bits and clears them in the word
ThreadWait(g) ==
    /\ thr[g].pc = "wait"
    /\ flag[g] \cap kWriteBits # {}
    /\ thr' = [thr EXCEPT ![g].pc = "woken",
                          ![g].flagState = flag[g] \cap kWriteBits,
                          ![g].synced = @ \/ life[g] = "joining"]
    /\ flag' = [flag EXCEPT ![g] = @ \ kWriteBits]
    /\ UNCHANGED <<life, mDestructing, grp, queue, calls, blocklist, glimits,
                   nWrites, nOwner, mgrVars, recVars, statVars, restVars>>

\* if (mDestructing) return; else take mGroupMutex
ThreadWoken(g) ==
    /\ thr[g].pc = "woken"
    /\ \E d \in SeenDestructing(g) :
          thr' = [thr EXCEPT ![g].pc = IF d THEN "exited" ELSE "scan"]
    /\ UNCHANGED <<life, mDestructing, grp, flag, queue, calls, blocklist, glimits,
                   nWrites, nOwner, mgrVars, recVars, statVars, restVars>>

\* blocklist.contains(uid)
BlockedNever(uid, list) == FALSE

Blocked(uid, list) == uid \in list

\* One iteration of the channel loop, up to the message loop: the lowest set
\* bit of flagState names the channel; the loop ends, and the mutex is
\* released, when no bit below kMaxChannels is left or mDestructing is seen.
ThreadScan(g) ==
    LET t == thr[g]
        channelNum == countr_zero(t.flagState)
        dropped == t.flagState \ {channelNum}
        channel == grp[g].mChannels[channelNum]
        q == queue[g][channelNum]
        toRead == availableToRead(q)
        skip == /\ thr' = [thr EXCEPT ![g].flagState = dropped,
                                      ![g].channelNum = channelNum]
                /\ UNCHANGED <<flag, queue, calls, blocklist>>
    IN  /\ t.pc = "scan"
        /\ \E d \in SeenDestructing(g) :
              IF channelNum < kMaxChannels /\ ~d
              THEN IF channel = Null \/ ~isValid(channel) THEN skip
                   ELSE IF Blocked(channel.mUid, blocklist) THEN skip
                   ELSE IF toRead <= 0 THEN skip
                   ELSE IF ~readOk(q, toRead)
                   THEN /\ blocklist' = blocklist \cup {channel.mUid}
                        /\ thr' = [thr EXCEPT ![g].flagState = dropped,
                                              ![g].channelNum = channelNum,
                                              ![g].messages = <<>>,
                                              ![g].inserted = @ \cup {channel.mUid}]
                        /\ UNCHANGED <<flag, queue, calls>>
                   ELSE /\ thr' = [thr EXCEPT ![g].flagState = dropped,
                                              ![g].channelNum = channelNum,
                                              ![g].messages = q.msgs,
                                              ![g].messageIndex = 0,
                                              ![g].pc = "msg"]
                        /\ queue' = [queue EXCEPT ![g][channelNum] = EmptyQueue]
                        /\ flag' = [flag EXCEPT ![g] = @ \cup getReadBitmask(channel)]
                        /\ calls' = [calls EXCEPT ![g] = <<>>]
                        /\ UNCHANGED blocklist
              ELSE /\ thr' = [thr EXCEPT ![g].pc = "loop"]
                   /\ UNCHANGED <<flag, queue, calls, blocklist>>
        /\ UNCHANGED <<life, mDestructing, grp, glimits, nWrites, nOwner, mgrVars, recVars, statVars, restVars>>

Call(sessionID, name, arg) == [session |-> sessionID, call |-> name, arg |-> arg]

\* the session call a message with a tag other than workDuration leads to
CallOf(message) ==
    CASE message.tag = "hint" -> <<Call(message.sessionID, "sendHint", message.data)>>
      [] message.tag = "targetDuration" ->
            <<Call(message.sessionID, "updateTargetWorkDuration", message.data)>>
      [] message.tag = "mode" -> <<Call(message.sessionID, "setMode", message.data)>>
      [] OTHER -> <<>>

\* One iteration of the message loop, messageIndex counting from 0: the loop
\* ends at the end of the batch or when mDestructing is seen.  A workDuration
\* message of a session that resolves enters the coalescing loop.
ThreadMsg(g) ==
    LET t == thr[g]
        message == t.messages[t.messageIndex + 1]
    IN  /\ t.pc = "msg"
        /\ \E d \in SeenDestructing(g) :
              IF t.messageIndex < Len(t.messages) /\ ~d
              THEN IF ~getSession(message.sessionID)
                   THEN /\ thr' = [thr EXCEPT ![g].messageIndex = @ + 1]
                        /\ UNCHANGED calls
                   ELSE IF message.tag = "workDuration"
                   THEN /\ thr' = [thr EXCEPT ![g].durations = <<>>,
                                              ![g].runSession = message.sessionID,
                                              ![g].pc = "coalesce"]
                        /\ UNCHANGED calls
                   ELSE /\ thr' = [thr EXCEPT ![g].messageIndex = @ + 1]
                        /\ calls' = [calls EXCEPT ![g] = @ \o CallOf(message)]
              ELSE /\ thr' = [thr EXCEPT ![g].pc = "scan"]
                   /\ UNCHANGED calls
        /\ UNCHANGED <<life, mDestructing, grp, flag, queue, blocklist, glimits,
                       nWrites, nOwner, mgrVars, recVars, statVars, restVars>>

\* messageIndex when the message loop resumes after the coalescing loop left
\* it at index: the switch breaks and the message loop's ++messageIndex runs
ResumeIndex(index) == index + 1

\* One iteration of the coalescing loop: it takes the message at messageIndex
\* while it is a workDuration of the run's session, and otherwise reports the
\* durations gathered and goes back to the message loop.
ThreadCoalesce(g) ==
    LET t == thr[g]
        message == t.messages[t.messageIndex + 1]
    IN  /\ t.pc = "coalesce"
        /\ \E d \in SeenDestructing(g) :
              IF /\ ~d
                 /\ t.messageIndex < Len(t.messages)
                 /\ message.tag = "workDuration"
                 /\ message.sessionID = t.runSession
              THEN /\ thr' = [thr EXCEPT ![g].durations = Append(@, message.data),
                                         ![g].messageIndex = @ + 1]
                   /\ UNCHANGED calls
              ELSE /\ thr' = [thr EXCEPT ![g].messageIndex = ResumeIndex(@),
                                         ![g].pc = "msg"]
                   /\ calls' = [calls EXCEPT ![g] =
                                   Append(@, Call(t.runSession, "reportActualWorkDuration",
                                                  t.durations))]
        /\ UNCHANGED <<life, mDestructing, grp, flag, queue, blocklist, glimits,
                       nWrites, nOwner, mgrVars, recVars, statVars, restVars>>

\* A client writes a batch to its channel's queue and wakes the write bit.
ClientWrite(g, slot, batch) ==
    /\ life[g] # "none"
    /\ grp[g].mChannels[slot] # Null
    /\ batch \in glimits.batches
    /\ nWrites < glimits.writes
    /\ ~queue[g][slot].corrupt
    /\ Len(queue[g][slot].msgs) + Len(batch) <= kFMQQueueSize
    /\ nWrites' = nWrites + 1
    /\ queue' = [queue EXCEPT ![g][slot].msgs = @ \o batch]
    /\ flag' = [flag EXCEPT ![g] = @ \cup getWriteBitmask(grp[g].mChannels[slot])]
    /\ UNCHANGED <<life, mDestructing, grp, thr, calls, blocklist, glimits, nOwner,
                   mgrVars, recVars, statVars, restVars>>

\* A client scribbles over the shared queue pointers and wakes the write bit.
ClientTamper(g, slot) ==
    /\ life[g] # "none"
    /\ grp[g].mChannels[slot] # Null
    /\ glimits.tamper
    /\ nWrites < glimits.writes
    /\ ~queue[g][slot].corrupt
    /\ nWrites' = nWrites + 1
    /\ queue' = [queue EXCEPT ![g][slot].corrupt = TRUE]
    /\ flag' = [flag EXCEPT ![g] = @ \cup getWriteBitmask(grp[g].mChannels[slot])]
    /\ UNCHANGED <<life, mDestructing, grp, thr, calls, blocklist, glimits, nOwner,
                   mgrVars, recVars, statVars, restVars>>

\* the sequences over S of length at most n
RECURSIVE SeqsUpTo(_, _)
SeqsUpTo(S, n) ==
    IF n = 0 THEN {<<>>}
    ELSE LET shorter == SeqsUpTo(S, n - 1)
         IN  shorter \cup {Append(q, x) : q \in {r \in shorter : Len(r) = n - 1}, x \in S}

(***************************************************************************)
(* SessionRecords: a ring of the last kMaxNumOfRecords cycle records with  *)
(* running aggregates.  Times are integers in the source's units; the      *)
(* double kJankCheckTimeFactor is kept as its tenfold.                     *)
(***************************************************************************)
MinRing == 3            \* smallest maxNumOfRecords constructed
MaxRing == 4            \* largest maxNumOfRecords constructed
MaxAdds == 5            \* durations added in a behaviour
MaxVector == 2          \* longest actualDurationsNs vector of one call
MaxResets == 1          \* resetRecords calls in a behaviour

kTotalFramesForFPSCheck == 3
kJankCheckTimeFactorX10 == 15

\* C++ integer division, which truncates toward zero
TruncDiv(a, b) == IF a >= 0 THEN a \div b ELSE -((-a) \div b)

WorkDuration(timeStampNanos, durationNanos) ==
    [timeStampNanos |-> timeStampNanos, durationNanos |-> durationNanos]

\* the work durations the sessions report, and their target
WorkDurationInputs ==
    {WorkDuration(0, 2000999), WorkDuration(60000000, 30000500)}

TargetDurationsNs == {1000000, 3000000}

DurationVectors == SeqsUpTo(WorkDurationInputs, MaxVector)

\* frames reported as they end: the time from the end of the frame before,
\* and the duration
Frame(gapNanos, durationNanos) == [gapNanos |-> gapNanos, durationNanos |-> durationNanos]

FrameInputs == {Frame(10000000, 8000000), Frame(40000000, 8000000), Frame(10000000, 22000000)}

FrameVectors == SeqsUpTo(FrameInputs, MaxVector)

\* the work durations of frames that follow a frame ended at clock
RECURSIVE Stamp(_, _)
Stamp(frames, clock) ==
    IF frames = <<>> THEN <<>>
    ELSE <<WorkDuration(clock + Head(frames).gapNanos, Head(frames).durationNanos)>>
             \o Stamp(Tail(frames), clock + Head(frames).gapNanos)

\* The object is explored in two envelopes: a session that switches its
\* target and never asks for FPS jitters (the default), with the durations of
\* WorkDurationInputs, and a session of one target that asks for them on some
\* calls and reports frames as they end.
SwitchLimits == [targets |-> TargetDurationsNs, computes |-> {FALSE}, vectors |-> DurationVectors,
                 clocked |-> FALSE]
JitterLimits == [targets |-> {10000000}, computes |-> BOOLEAN, vectors |-> FrameVectors,
                 clocked |-> TRUE]
\* a session that asks for FPS jitters on every call
EveryCallLimits == [targets |-> {10000000}, computes |-> {TRUE}, vectors |-> FrameVectors,
                    clocked |-> TRUE]

CycleRecord(startIntervalUs, totalDurationUs, isMissedCycle, isFPSJitter) ==
    [startIntervalUs |-> startIntervalUs, totalDurationUs |-> totalDurationUs,
     isMissedCycle |-> isMissedCycle, isFPSJitter |-> isFPSJitter]

FrameBuckets ==
    [totalNumOfFrames |-> 0, numOfFrames17to25ms |-> 0, numOfFrames25to34ms |-> 0,
     numOfFrames34to67ms |-> 0, numOfFrames67to100ms |-> 0, numOfFramesOver100ms |-> 0]

\* SessionRecords::SessionRecords(maxNumOfRecords, jankCheckTimeFactor)
SessionRecords(maxNumOfRecords) ==
    [kMaxNumOfRecords |-> maxNumOfRecords,
     mRecords |-> [i \in 0 .. (maxNumOfRecords - 1) |-> CycleRecord(0, 0, FALSE, FALSE)],
     mRecordsIndQueue |-> <<>>,
     mAvgDurationUs |-> 0,
     mLastStartTimeNs |-> 0,
     mLatestRecordIndex |-> -1,
     mNumOfMissedCycles |-> 0,
     mNumOfFrames |-> 0,
     mSumOfDurationsUs |-> 0,
     mLatestStartIntervalSumUs |-> 0,
     mNumOfFrameFPSJitters |-> 0,
     mAddedFramesForFPSCheck |-> 0]

\* addReportedDurations, the branch taken when the ring is full: the record
\* after the latest one, which is the oldest, leaves the aggregates
evictOldestKeepCount(r) ==
    LET indexOfRecordToRemove == (r.mLatestRecordIndex + 1) % r.kMaxNumOfRecords
        old == r.mRecords[indexOfRecordToRemove]
    IN  [r EXCEPT !.mSumOfDurationsUs = @ - old.totalDurationUs,
                  !.mNumOfMissedCycles = IF old.isMissedCycle THEN @ - 1 ELSE @,
                  !.mNumOfFrameFPSJitters = IF old.isFPSJitter THEN @ - 1 ELSE @,
                  !.mRecordsIndQueue =
                      IF @ # <<>> /\ Head(@) = indexOfRecordToRemove THEN Tail(@) ELSE @]

evictOldestKeepMissed(r) ==
    LET indexOfRecordToRemove == (r.mLatestRecordIndex + 1) % r.kMaxNumOfRecords
        old == r.mRecords[indexOfRecordToRemove]
    IN  [r EXCEPT !.mSumOfDurationsUs = @ - old.totalDurationUs,
                  !.mNumOfFrameFPSJitters = IF old.isFPSJitter THEN @ - 1 ELSE @,
                  !.mNumOfFrames = @ - 1,
                  !.mRecordsIndQueue =
                      IF @ # <<>> /\ Head(@) = indexOfRecordToRemove THEN Tail(@) ELSE @]

evictOldest(r) ==
    LET indexOfRecordToRemove == (r.mLatestRecordIndex + 1) % r.kMaxNumOfRecords
        old == r.mRecords[indexOfRecordToRemove]
    IN  [r EXCEPT !.mSumOfDurationsUs = @ - old.totalDurationUs,
                  !.mNumOfMissedCycles = IF old.isMissedCycle THEN @ - 1 ELSE @,
                  !.mNumOfFrameFPSJitters = IF old.isFPSJitter THEN @ - 1 ELSE @,
                  !.mNumOfFrames = @ - 1,
                  !.mRecordsIndQueue =
                      IF @ # <<>> /\ Head(@) = indexOfRecordToRemove THEN Tail(@) ELSE @]

\* SessionRecords::updateFrameBuckets
updateFrameBuckets(frameDurationUs, isJankFrame, b) ==
    LET counted == [b EXCEPT !.totalNumOfFrames = @ + 1]
    IN  IF ~isJankFrame \/ frameDurationUs < 17000 THEN counted
        ELSE IF frameDurationUs < 25000 THEN [counted EXCEPT !.numOfFrames17to25ms = @ + 1]
        ELSE IF frameDurationUs < 34000 THEN [counted EXCEPT !.numOfFrames25to34ms = @ + 1]
        ELSE IF frameDurationUs < 67000 THEN [counted EXCEPT !.numOfFrames34to67ms = @ + 1]
        ELSE IF frameDurationUs < 100000 THEN [counted EXCEPT !.numOfFrames67to100ms = @ + 1]
        ELSE [counted EXCEPT !.numOfFramesOver100ms = @ + 1]

\* the indexes left in the descending queue once those of durations not
\* greater than the latest one are popped from its back
popNotGreaterKeepAll(indQueue, recs, totalDurationUs) == indQueue

RECURSIVE popNotGreater(_, _, _)
popNotGreater(indQueue, recs, totalDurationUs) ==
    IF indQueue # <<>> /\ recs[indQueue[Len(indQueue)]].totalDurationUs <= totalDurationUs
    THEN popNotGreater(SubSeq(indQueue, 1, Len(indQueue) - 1), recs, totalDurationUs)
    ELSE indQueue

\* One iteration of the loop of addReportedDurations, after the eviction:
\* the duration is stored after the latest record.  The comparison with
\* 1.4 * sum / kTotalFramesForFPSCheck is made on its multiples by 15, and
\* the one with the jank factor on its multiples by 10.
storeDuration(r, duration, targetDurationNs, computeFPSJitters) ==
    LET totalDurationUs == TruncDiv(duration.durationNanos, 1000)
        latest == (r.mLatestRecordIndex + 1) % r.kMaxNumOfRecords
        startTimeNs == duration.timeStampNanos - duration.durationNanos
        startIntervalUs ==
            IF r.mNumOfFrames > 0 THEN TruncDiv(startTimeNs - r.mLastStartTimeNs, 1000) ELSE 0
        warmedUp == r.mAddedFramesForFPSCheck >= kTotalFramesForFPSCheck
        FPSJitter ==
            /\ computeFPSJitters
            /\ warmedUp
            /\ 15 * startIntervalUs > 7 * kTotalFramesForFPSCheck * r.mLatestStartIntervalSumUs
        oldRecordIndex ==
            IF latest - kTotalFramesForFPSCheck < 0
            THEN latest - kTotalFramesForFPSCheck + r.kMaxNumOfRecords
            ELSE latest - kTotalFramesForFPSCheck
        sum ==
            IF ~computeFPSJitters THEN 0
            ELSE IF ~warmedUp
            THEN IF startIntervalUs > 0
                 THEN r.mLatestStartIntervalSumUs + startIntervalUs
                 ELSE r.mLatestStartIntervalSumUs
            ELSE r.mLatestStartIntervalSumUs
                     + (startIntervalUs - r.mRecords[oldRecordIndex].startIntervalUs)
        addedFrames ==
            IF ~computeFPSJitters THEN 0
            ELSE IF ~warmedUp /\ startIntervalUs > 0 THEN r.mAddedFramesForFPSCheck + 1
            ELSE r.mAddedFramesForFPSCheck
        cycleMissed ==
            10 * totalDurationUs > TruncDiv(targetDurationNs, 1000) * kJankCheckTimeFactorX10
        recs == [r.mRecords EXCEPT ![latest] =
                    CycleRecord(startIntervalUs, totalDurationUs, cycleMissed, FPSJitter)]
        sumOfDurations == r.mSumOfDurationsUs + totalDurationUs
    IN  [r EXCEPT !.mLatestRecordIndex = latest,
                  !.mLastStartTimeNs = startTimeNs,
                  !.mLatestStartIntervalSumUs = sum,
                  !.mAddedFramesForFPSCheck = addedFrames,
                  !.mNumOfFrameFPSJitters = IF FPSJitter THEN @ + 1 ELSE @,
                  !.mRecords = recs,
                  !.mNumOfFrames = @ + 1,
                  !.mNumOfMissedCycles = IF cycleMissed THEN @ + 1 ELSE @,
                  !.mRecordsIndQueue =
                      Append(popNotGreater(r.mRecordsIndQueue, r.mRecords, totalDurationUs),
                             latest),
                  !.mSumOfDurationsUs = sumOfDurations,
                  !.mAvgDurationUs = TruncDiv(sumOfDurations, r.mNumOfFrames + 1)]

\* One iteration of the loop of addReportedDurations
addDuration(r, duration, targetDurationNs, computeFPSJitters) ==
    storeDuration(IF r.mNumOfFrames >= r.kMaxNumOfRecords THEN evictOldest(r) ELSE r,
                  duration, targetDurationNs, computeFPSJitters)

\* what a duration adds to the caller's buckets
bucketsOf(duration, targetDurationNs, b) ==
    LET totalDurationUs == TruncDiv(duration.durationNanos, 1000)
    IN  updateFrameBuckets(
            totalDurationUs,
            10 * totalDurationUs > TruncDiv(targetDurationNs, 1000) * kJankCheckTimeFactorX10,
            b)

\* SessionRecords::addReportedDurations: the loop over actualDurationsNs;
\* written lists the record each iteration stored
RECURSIVE addReportedDurationsFrom(_, _, _, _, _, _)
addReportedDurationsFrom(r, b, written, actualDurationsNs, targetDurationNs, computeFPSJitters) ==
    IF actualDurationsNs = <<>> THEN [records |-> r, buckets |-> b, written |-> written]
    ELSE LET next == addDuration(r, Head(actualDurationsNs), targetDurationNs,
                                 computeFPSJitters)
         IN  addReportedDurationsFrom(
                 next,
                 bucketsOf(Head(actualDurationsNs), targetDurationNs, b),
                 Append(written, [record |-> next.mRecords[next.mLatestRecordIndex],
                                  targetDurationNs |-> targetDurationNs]),
                 Tail(actualDurationsNs), targetDurationNs, computeFPSJitters)

addReportedDurations(r, b, actualDurationsNs, targetDurationNs, computeFPSJitters) ==
    addReportedDurationsFrom(r, b, <<>>, actualDurationsNs, targetDurationNs,
                             computeFPSJitters)

\* SessionRecords::resetRecords
resetRecords(r) ==
    [r EXCEPT !.mAvgDurationUs = 0,
              !.mLastStartTimeNs = 0,
              !.mLatestRecordIndex = -1,
              !.mNumOfMissedCycles = 0,
              !.mNumOfFrames = 0,
              !.mSumOfDurationsUs = 0,
              !.mRecordsIndQueue = <<>>]

getNumOfRecords(r) == r.mNumOfFrames

getNumOfMissedCycles(r) == r.mNumOfMissedCycles

getAvgDuration(r) == IF r.mNumOfFrames <= 0 THEN {} ELSE {r.mAvgDurationUs}

getNumOfFPSJitters(r) == r.mNumOfFrameFPSJitters

\* What a call of getLatestFPS can do: return a value, or end the process.
Returned(value) == [crashed |-> FALSE, value |-> value]
Crashed == [crashed |-> TRUE, value |-> 0]

\* 1000000 * kTotalFramesForFPSCheck / mLatestStartIntervalSumUs, an int
\* division.  By a zero sum it is undefined: the builds for arm give 0 (sdiv
\* does not trap), the builds for x86 raise SIGFPE.
getLatestFPS(r) ==
    LET sum == r.mLatestStartIntervalSumUs
    IN  IF sum = 0 THEN {Returned(0), Crashed}
        ELSE IF sum > 0 THEN {Returned(TruncDiv(1000000 * kTotalFramesForFPSCheck, sum))}
        ELSE {Returned(-TruncDiv(1000000 * kTotalFramesForFPSCheck, -sum))}

\* startIntervalUs >= 1000000.0 / fpsLowRateThreshold, on integers
AtLeastCycle(startIntervalUs, fpsLowRateThreshold) ==
    IF fpsLowRateThreshold > 0 THEN startIntervalUs * fpsLowRateThreshold >= 1000000
    ELSE IF fpsLowRateThreshold = 0 THEN FALSE
    ELSE startIntervalUs * fpsLowRateThreshold <= 1000000

\* isLowFrameRate with indices that stop at 0 where the ring wraps
isLowFrameRateNoWrap(r, fpsLowRateThreshold) ==
    IF r.mNumOfFrames >= 3
    THEN LET ind1 == r.mLatestRecordIndex
             ind2 == IF ind1 = 0 THEN 0 ELSE ind1 - 1
             ind3 == IF ind2 = 0 THEN 0 ELSE ind2 - 1
         IN  /\ AtLeastCycle(r.mRecords[ind1].startIntervalUs, fpsLowRateThreshold)
             /\ AtLeastCycle(r.mRecords[ind2].startIntervalUs, fpsLowRateThreshold)
             /\ AtLeastCycle(r.mRecords[ind3].startIntervalUs, fpsLowRateThreshold)
    ELSE FALSE

isLowFrameRate(r, fpsLowRateThreshold) ==
    IF r.mNumOfFrames >= 3
    THEN LET ind1 == r.mLatestRecordIndex
             ind2 == IF ind1 = 0 THEN r.kMaxNumOfRecords - 1 ELSE ind1 - 1
             ind3 == IF ind2 = 0 THEN r.kMaxNumOfRecords - 1 ELSE ind2 - 1
         IN  /\ AtLeastCycle(r.mRecords[ind1].startIntervalUs, fpsLowRateThreshold)
             /\ AtLeastCycle(r.mRecords[ind2].startIntervalUs, fpsLowRateThreshold)
             /\ AtLeastCycle(r.mRecords[ind3].startIntervalUs, fpsLowRateThreshold)
    ELSE FALSE

\* a std::optional is the empty set (nullopt) or the set of its value
getMaxDuration(r) ==
    IF r.mRecordsIndQueue = <<>> THEN {}
    ELSE {r.mRecords[Head(r.mRecordsIndQueue)].totalDurationUs}

RecIdle ==
    /\ records = SessionRecords(MinRing)
    /\ rlimits = SwitchLimits
    /\ clockNs = 0
    /\ framesInBuckets = FrameBuckets
    /\ added = <<>>
    /\ addedRecords = <<>>
    /\ nAdds = 0
    /\ nResets = 0

RecordsInit(envelope) ==
    /\ records \in {SessionRecords(k) : k \in MinRing .. MaxRing}
    /\ rlimits = envelope
    /\ clockNs = 0
    /\ framesInBuckets = FrameBuckets
    /\ added = <<>>
    /\ addedRecords = <<>>
    /\ nAdds = 0
    /\ nResets = 0

\* a session calls addReportedDurations with a FrameBuckets of its own
AddReportedDurations ==
    \E reported \in rlimits.vectors, targetDurationNs \in rlimits.targets,
       computeFPSJitters \in rlimits.computes :
        /\ nAdds + Len(reported) <= MaxAdds
        /\ \E actualDurationsNs \in
                {IF rlimits.clocked THEN Stamp(reported, clockNs) ELSE reported} :
           \E done \in {addReportedDurations(records, FrameBuckets, actualDurationsNs,
                                              targetDurationNs, computeFPSJitters)} :
            /\ nAdds' = nAdds + Len(actualDurationsNs)
            /\ records' = done.records
            /\ framesInBuckets' = done.buckets
            /\ added' = added \o [j \in 1 .. Len(actualDurationsNs) |->
                                     TruncDiv(actualDurationsNs[j].durationNanos, 1000)]
            /\ addedRecords' = addedRecords \o done.written
            /\ clockNs' = IF rlimits.clocked /\ actualDurationsNs # <<>>
                          THEN actualDurationsNs[Len(actualDurationsNs)].timeStampNanos
                          ELSE clockNs
            /\ UNCHANGED <<rlimits, nResets, mgrVars, grpVars, statVars, restVars>>

ResetRecords ==
    /\ nResets < MaxResets
    /\ nResets' = nResets + 1
    /\ records' = resetRecords(records)
    /\ added' = <<>>
    /\ addedRecords' = <<>>
    /\ UNCHANGED <<framesInBuckets, rlimits, clockNs, nAdds, mgrVars, grpVars, statVars, restVars>>

(***************************************************************************)
(* pixelstats.  SysfsCollector::collect wakes on a CLOCK_BOOTTIME timer    *)
(* every 5 minutes and calls aggregatePer5Min, logPerHour and logPerDay;   *)
(* logPerDay calls BatteryEEPROMReporter::checkAndReport and, after it,    *)
(* checkAndReportValidation.  BatteryFGReporter::reportFGEvent keeps a     *)
(* trigger time for each fuel-gauge event.                                 *)
(***************************************************************************)
MaxTicks == 300      \* expirations reported to the loop of collect
MaxElapses == 3      \* times the clocks are advanced for the reporters
MaxRows == 1         \* lines of the EEPROM history file
MaxFGEvent == 1      \* largest fuel-gauge event index reported, besides bad ones

kLaunchSleepSecs == 30                       \* sleep(30) on launch
kSecondsPerWake == 5 * 60
kWakesPer5Min == (5 * 60) \div kSecondsPerWake
kWakesPerHour == (60 * 60) \div kSecondsPerWake
kWakesPerDay == (24 * 60 * 60) \div kSecondsPerWake
kSecondsPerMonth == 60 * 60 * 24 * 30
kNumMaxEvents == 8

\* The clocks count seconds since boot and stay far below 2^31 here, so the
\* conversions of a time to unsigned int (last_hv_check_, ab_trigger_time_)
\* and of a difference of times to int32_t (duration) keep the value.

\* expire.count of one read of the timer: one expiration, or several when the
\* thread did not run for more than a period
ExpireCounts == {1, 2, 30}

\* seconds that pass between two calls on a reporter
ElapseSecs == {60 * 60 * 24, kSecondsPerMonth - 1}

\* seconds that pass between the two readings of the clock in checkAndReport
ReportDelays == {0, 1}

\* The EEPROM history file: unreadable, or lines of LINESIZE characters, each
\* a history record or a line that is skipped (erased, 0xFFFF 0xFFFF, or not
\* parsed, or with no data).
HistoryFile(readable, rows) == [readable |-> readable, rows |-> rows]

HistoryFiles ==
    {HistoryFile(FALSE, <<>>)}
        \cup {HistoryFile(TRUE, rows) : rows \in SeqsUpTo({"history", "skipped"}, MaxRows)}

HistoryRows(file) == Cardinality({i \in DOMAIN file.rows : file.rows[i] = "history"})

\* What readLogbuffer finds for checkAndReportValidation: whether one of the
\* paths exists, and for each event newer than last_hv_check_ whether it has
\* kNumValidationFields fields.
ValidationLog(found, events) == [found |-> found, events |-> events]

ValidationLogs ==
    {ValidationLog(FALSE, <<>>)}
        \cup {ValidationLog(TRUE, events) : events \in {<<>>, <<TRUE>>, <<FALSE, TRUE>>}}

ValidationEvents(log) == Cardinality({i \in DOMAIN log.events : log.events[i]})

\* a BatteryEEPROMReporter as constructed
BatteryEEPROMReporter == [report_time_ |-> 0, last_hv_check_ |-> 0]

NoEEPROMCalls ==
    [call |-> "none", throttled |-> FALSE, readable |-> FALSE, rows |-> 0,
     reported |-> 0, prevReportTime |-> 0, prevHvCheck |-> 0,
     hvSeen |-> "none", hvSeenAtCall |-> "none",
     uploadAt |-> {}, gap |-> {}, resetSince |-> FALSE]

\* the throttle of checkAndReport that never holds an upload back
NotUploadTimeNever(report_time, now) == FALSE

\* (report_time_ != 0) && (now - report_time_ < kSecondsPerMonth)
NotUploadTime(report_time, now) ==
    report_time # 0 /\ now - report_time < kSecondsPerMonth

\* checkAndReport, called at boot time now on a reporter e.rep; delay is the
\* time from that reading of the clock to the one that sets report_time_.
\* e.log is the history of calls.
checkAndReport(e, now, file, delay) ==
    LET called == [e.log EXCEPT !.call = "checkAndReport", !.throttled = FALSE,
                                !.readable = FALSE, !.rows = 0, !.reported = 0,
                                !.prevReportTime = e.rep.report_time_,
                                !.prevHvCheck = e.rep.last_hv_check_,
                                !.hvSeenAtCall = e.log.hvSeen, !.hvSeen = "none"]
    IN  IF NotUploadTime(e.rep.report_time_, now)
        THEN [rep |-> e.rep, log |-> [called EXCEPT !.throttled = TRUE]]
        ELSE IF ~file.readable
        THEN [rep |-> e.rep, log |-> called]
        ELSE IF HistoryRows(file) = 0
        THEN [rep |-> e.rep, log |-> [called EXCEPT !.readable = TRUE]]
        ELSE [rep |-> [e.rep EXCEPT !.report_time_ = now + delay],
              log |-> [called EXCEPT
                          !.readable = TRUE, !.rows = HistoryRows(file),
                          !.reported = HistoryRows(file),
                          !.uploadAt = {now},
                          !.gap = {[secs |-> now - at, reset |-> e.log.resetSince]
                                      : at \in e.log.uploadAt},
                          !.resetSince = FALSE]]

\* the test of checkAndReportValidation that never sees a recovery
HistoryRecoveredNever(last_hv_check) == FALSE

\* if (last_hv_check_ != 0): the history was recovered, force a report
HistoryRecovered(last_hv_check) == last_hv_check # 0

\* checkAndReportValidation, called at CLOCK_MONOTONIC time mono
checkAndReportValidation(e, mono, log) ==
    LET called == [e.log EXCEPT !.call = "checkAndReportValidation", !.throttled = FALSE,
                                !.readable = FALSE, !.rows = 0,
                                !.reported = 0,
                                !.prevReportTime = e.rep.report_time_,
                                !.prevHvCheck = e.rep.last_hv_check_]
        n == ValidationEvents(log)
        recovered == n > 0 /\ HistoryRecovered(e.rep.last_hv_check_)
    IN  IF ~log.found
        THEN [rep |-> e.rep, log |-> called]
        ELSE [rep |-> [report_time_ |-> IF recovered THEN 0 ELSE e.rep.report_time_,
                       last_hv_check_ |-> mono],
              log |-> [called EXCEPT
                          !.reported = n,
                          !.hvSeen = IF n = 0 THEN e.log.hvSeen
                                     ELSE IF e.rep.last_hv_check_ # 0 THEN "later"
                                     ELSE IF e.log.hvSeen = "later" THEN "later"
                                     ELSE "first",
                          !.resetSince = e.log.resetSince \/ recovered]]

\* What a call of logPerDay meets: whether getStatsService gives a client (to
\* logPerDay, and to logBatteryHistoryValidation), whether the configuration
\* names an EEPROMPath, and the files.
DayInput(client, validationClient, eepromPath, file, log) ==
    [client |-> client, validationClient |-> validationClient,
     eepromPath |-> eepromPath, file |-> file, log |-> log]

DayInputs ==
    {DayInput(c, v, p, f, l) :
        c \in BOOLEAN, v \in BOOLEAN, p \in BOOLEAN, f \in HistoryFiles, l \in ValidationLogs}

\* logBatteryEEPROM: checkAndReport unless EEPROMPath is empty
logBatteryEEPROM(e, in, boot) ==
    IF in.eepromPath THEN checkAndReport(e, boot, in.file, 0) ELSE e

\* logBatteryHistoryValidation
logBatteryHistoryValidation(e, in, mono) ==
    IF in.validationClient THEN checkAndReportValidation(e, mono, in.log) ELSE e

\* logPerDay, as far as the battery EEPROM reporter goes
logPerDay(e, in, boot, mono) ==
    IF in.client
    THEN logBatteryHistoryValidation(logBatteryEEPROM(e, in, boot), in, mono)
    ELSE e

\* the input of an iteration that does not call logPerDay
NoDay == DayInput(FALSE, FALSE, FALSE, HistoryFile(FALSE, <<>>), ValidationLog(FALSE, <<>>))

NoWakes == [aggregatePer5Min |-> 0, logPerHour |-> 0, logPerDay |-> 0]

\* no reportFGEvent call yet.  triggers[event] holds the times of the
\* state==1 reports of the event since its last state==0 report, since those
\* the call found, othersKept that the call left the other events' times.
NoFGCall == [event |-> 0, state |-> 0, accepted |-> FALSE, before |-> 0, at |-> 0,
             duration |-> 0, since |-> {}, othersKept |-> TRUE,
             triggers |-> [event \in 0 .. (kNumMaxEvents - 1) |-> {}]]

StatIdle ==
    /\ collecting = FALSE
    /\ wake_5min = 0
    /\ wake_hours = 0
    /\ wake_days = 0
    /\ elapsedTicks = 0
    /\ expireCount = 0
    /\ fired = NoWakes
    /\ bootSecs = kLaunchSleepSecs
    /\ monoSecs = kLaunchSleepSecs
    /\ battery_EEPROM_reporter_ = BatteryEEPROMReporter
    /\ eepromCalls = NoEEPROMCalls
    /\ ab_trigger_time_ = [event \in 0 .. (kNumMaxEvents - 1) |-> 0]
    /\ fgCall = NoFGCall
    /\ nElapses = 0

\* collect as it enters its loop: the timer is made and set, 30 seconds were
\* slept, and logPerDay was called once.
CollectInit ==
    /\ collecting = TRUE
    /\ wake_5min = 0
    /\ wake_hours = 0
    /\ wake_days = 0
    /\ elapsedTicks = 0
    /\ expireCount = 0
    /\ fired = NoWakes
    /\ bootSecs = kLaunchSleepSecs
    /\ monoSecs = kLaunchSleepSecs
    /\ \E in \in DayInputs :
        \E e \in {logPerDay([rep |-> BatteryEEPROMReporter, log |-> NoEEPROMCalls], in,
                            kLaunchSleepSecs, kLaunchSleepSecs)} :
            /\ battery_EEPROM_reporter_ = e.rep
            /\ eepromCalls = e.log
    /\ ab_trigger_time_ = [event \in 0 .. (kNumMaxEvents - 1) |-> 0]
    /\ fgCall = NoFGCall
    /\ nElapses = 0

\* wake_hours %= kWakesPerHour, written as a reset to zero
wrapWakesToZero(wakes, wakesPerPeriod) == 0

\* wake_hours %= kWakesPerHour
wrapWakes(wakes, wakesPerPeriod) == wakes % wakesPerPeriod

\* One iteration of the loop of collect: read() returns count expirations.
\* An hour or more of expirations at once is a device that slept, the
\* monotonic clock standing still, or a thread that did not run.
CollectWake ==
    \E count \in ExpireCounts :
      \E asleep \in IF count >= kWakesPerHour THEN BOOLEAN ELSE {FALSE},
         in \in IF wake_days + count >= kWakesPerDay THEN DayInputs ELSE {NoDay} :
        /\ collecting
        /\ elapsedTicks + count <= MaxTicks
        /\ elapsedTicks' = elapsedTicks + count
        /\ expireCount' = count
        /\ bootSecs' = bootSecs + kSecondsPerWake * count
        /\ monoSecs' = monoSecs + kSecondsPerWake * (IF asleep THEN 1 ELSE count)
        /\ wake_5min' = IF wake_5min + count >= kWakesPer5Min
                        THEN wrapWakes(wake_5min + count, kWakesPer5Min)
                        ELSE wake_5min + count
        /\ wake_hours' = IF wake_hours + count >= kWakesPerHour
                         THEN wrapWakes(wake_hours + count, kWakesPerHour)
                         ELSE wake_hours + count
        /\ wake_days' = IF wake_days + count >= kWakesPerDay
                        THEN wrapWakes(wake_days + count, kWakesPerDay)
                        ELSE wake_days + count
        /\ fired' = [aggregatePer5Min |-> IF wake_5min + count >= kWakesPer5Min THEN 1 ELSE 0,
                     logPerHour |-> IF wake_hours + count >= kWakesPerHour THEN 1 ELSE 0,
                     logPerDay |-> IF wake_days + count >= kWakesPerDay THEN 1 ELSE 0]
        /\ \E e \in {IF wake_days + count >= kWakesPerDay
                     THEN logPerDay([rep |-> battery_EEPROM_reporter_, log |-> eepromCalls],
                                    in, bootSecs', monoSecs')
                     ELSE [rep |-> battery_EEPROM_reporter_, log |-> eepromCalls]} :
            /\ battery_EEPROM_reporter_' = e.rep
            /\ eepromCalls' = e.log
        /\ UNCHANGED <<collecting, ab_trigger_time_, fgCall, nElapses, mgrVars, grpVars, recVars, restVars>>

\* read() of the timer fails with an error other than EINTR: collect returns
CollectReadError ==
    /\ collecting
    /\ collecting' = FALSE
    /\ UNCHANGED <<wake_5min, wake_hours, wake_days, elapsedTicks, expireCount, fired,
                   bootSecs, monoSecs, battery_EEPROM_reporter_, eepromCalls,
                   ab_trigger_time_, fgCall, nElapses, mgrVars, grpVars, recVars, restVars>>

\* time passes between two calls on a reporter, the device awake
Elapse ==
    \E secs \in ElapseSecs :
        /\ nElapses < MaxElapses
        /\ nElapses' = nElapses + 1
        /\ bootSecs' = bootSecs + secs
        /\ monoSecs' = monoSecs + secs
        /\ UNCHANGED <<collecting, wake_5min, wake_hours, wake_days, elapsedTicks,
                       expireCount, fired, battery_EEPROM_reporter_, eepromCalls,
                       ab_trigger_time_, fgCall, mgrVars, grpVars, recVars, restVars>>

CheckAndReport ==
    \E file \in HistoryFiles, delay \in ReportDelays :
        \E e \in {checkAndReport([rep |-> battery_EEPROM_reporter_, log |-> eepromCalls],
                                 bootSecs, file, delay)} :
            /\ battery_EEPROM_reporter_' = e.rep
            /\ eepromCalls' = e.log
            /\ \E passed \in {IF e.log.reported > 0 THEN delay ELSE 0} :
                /\ passed > 0 => nElapses < MaxElapses
                /\ nElapses' = IF passed > 0 THEN nElapses + 1 ELSE nElapses
                /\ bootSecs' = bootSecs + passed
                /\ monoSecs' = monoSecs + passed
            /\ UNCHANGED <<collecting, wake_5min, wake_hours, wake_days, elapsedTicks,
                           expireCount, fired, ab_trigger_time_, fgCall,
                           mgrVars, grpVars, recVars, restVars>>

\* One line of LINESIZE characters as sscanf reads it with the format
\* "%4hx%4hx %x %x %x %x": num items converted, tempco and rcomp0 when they
\* are converted, and whether the four data words, all converted, combine to
\* a value that is not 0.
HistoryLine(num, tempco, rcomp0, tmp) ==
    [num |-> num, tempco |-> tempco, rcomp0 |-> rcomp0, tmp |-> tmp]

\* values of a 16-bit word: erased (0xFFFF) and written
RawWords == {65535, 4660}

HistoryLines ==
    {HistoryLine(0, 0, 0, 0)}
        \cup {HistoryLine(1, tempco, 0, 0) : tempco \in RawWords}
        \cup {HistoryLine(2, tempco, rcomp0, 0) : tempco \in RawWords, rcomp0 \in RawWords}
        \cup {HistoryLine(6, tempco, rcomp0, tmp) :
                 tempco \in RawWords, rcomp0 \in RawWords, tmp \in {0, 1}}

MaxLines == 2        \* lines of the EEPROM history file read line by line

\* the test of an erased record that never skips one
ErasedNever(hist_raw) == FALSE

\* hist_raw.tempco == 0xFFFF && hist_raw.rcomp0 == 0xFFFF
Erased(hist_raw) == hist_raw.tempco = 65535 /\ hist_raw.rcomp0 = 65535

\* The loop of checkAndReport over the lines from slot i on: for each slot
\* whether reportEvent is called. hist_raw and data are not initialized: an
\* item sscanf does not convert keeps what hist_raw held, and data that is not
\* converted holds any value. The result is the set of the outcomes possible.
RECURSIVE historyLoop(_, _, _)
historyLoop(lines, i, hist_raw) ==
    IF i > Len(lines) THEN {<<>>}
    ELSE LET line == lines[i]
             scanned == [tempco |-> IF line.num >= 1 THEN line.tempco ELSE hist_raw.tempco,
                         rcomp0 |-> IF line.num >= 2 THEN line.rcomp0 ELSE hist_raw.rcomp0]
             tmps == IF line.num >= 6 THEN {line.tmp} ELSE {0, 1}
             reports == IF line.num <= 0 THEN {FALSE}
                        ELSE IF Erased(scanned) THEN {FALSE}
                        ELSE {tmp > 0 : tmp \in tmps}
         IN  {<<[reported |-> reported, tempco |-> scanned.tempco,
                 rcomp0 |-> scanned.rcomp0]>> \o rest :
                 reported \in reports, rest \in historyLoop(lines, i + 1, scanned)}

\* checkAndReport on the file given line by line, readable or not: each line
\* is a history record when the loop reports it and is skipped otherwise.
CheckAndReportLines ==
    \E readable \in BOOLEAN, lines \in {historyLines},
       delay \in ReportDelays, hist_raw \in [tempco : RawWords, rcomp0 : RawWords] :
        \E slots \in historyLoop(lines, 1, hist_raw) :
            \E e \in {checkAndReport([rep |-> battery_EEPROM_reporter_, log |-> eepromCalls],
                                     bootSecs,
                                     HistoryFile(readable,
                                                 [i \in DOMAIN lines |->
                                                     IF slots[i].reported THEN "history"
                                                     ELSE "skipped"]),
                                     delay)} :
                /\ battery_EEPROM_reporter_' = e.rep
                /\ eepromCalls' = e.log
                /\ atoms' = IF e.log.throttled \/ ~e.log.readable THEN {}
                            ELSE {[slot |-> i, tempco |-> slots[i].tempco,
                                   rcomp0 |-> slots[i].rcomp0] :
                                     i \in {j \in DOMAIN lines : slots[j].reported}}
                /\ UNCHANGED <<collecting, wake_5min, wake_hours, wake_days, elapsedTicks,
                               expireCount, fired, bootSecs, monoSecs, nElapses,
                               ab_trigger_time_, fgCall,
                               mgrVars, grpVars, recVars, cfgVars, thermVars, estVars, supVars, bktVars, lockVars, historyLines>>

CheckAndReportValidation ==
    \E log \in ValidationLogs :
        \E e \in {checkAndReportValidation([rep |-> battery_EEPROM_reporter_,
                                            log |-> eepromCalls], monoSecs, log)} :
            /\ battery_EEPROM_reporter_' = e.rep
            /\ eepromCalls' = e.log
            /\ UNCHANGED <<collecting, wake_5min, wake_hours, wake_days, elapsedTicks,
                           expireCount, fired, bootSecs, monoSecs, ab_trigger_time_,
                           fgCall, nElapses, mgrVars, grpVars, recVars, restVars>>

\* the fields of a BatteryFGPipeline that reportFGEvent reads
BatteryFGPipeline(event, state) == [event |-> event, state |-> state, duration |-> 0]

FGEvents == {BatteryFGPipeline(event, state) :
                event \in (0 .. MaxFGEvent) \cup {kNumMaxEvents, -1}, state \in {0, 1}}

\* reportFGEvent at boot time now, up to the report of the atom: the trigger
\* times after it, whether the event was taken, and data.duration
reportFGEvent(trigger_time, data, now) ==
    IF data.event < 0 \/ data.event >= kNumMaxEvents  \* compared as unsigned
    THEN [ab_trigger_time_ |-> trigger_time, accepted |-> FALSE, duration |-> data.duration]
    ELSE IF data.state = 1 /\ trigger_time[data.event] = 0
    THEN [ab_trigger_time_ |-> [trigger_time EXCEPT ![data.event] = now],
          accepted |-> TRUE, duration |-> data.duration]
    ELSE [ab_trigger_time_ |-> [trigger_time EXCEPT ![data.event] = 0],
          accepted |-> TRUE, duration |-> now - trigger_time[data.event]]

ReportFGEvent ==
    \E data \in FGEvents :
        \E done \in {reportFGEvent(ab_trigger_time_, data, bootSecs)} :
            /\ ab_trigger_time_' = done.ab_trigger_time_
            /\ fgCall' = [event |-> data.event, state |-> data.state,
                          accepted |-> done.accepted,
                          before |-> IF done.accepted THEN ab_trigger_time_[data.event] ELSE 0,
                          at |-> bootSecs, duration |-> done.duration,
                          since |-> IF done.accepted THEN fgCall.triggers[data.event]
                                    ELSE {},
                          othersKept |->
                              \A other \in DOMAIN ab_trigger_time_ :
                                  other # data.event
                                      => done.ab_trigger_time_[other] = ab_trigger_time_[other],
                          triggers |->
                              IF ~done.accepted THEN fgCall.triggers
                              ELSE IF data.state = 1
                              THEN [fgCall.triggers EXCEPT ![data.event] = @ \cup {bootSecs}]
                              ELSE [fgCall.triggers EXCEPT ![data.event] = {}]]
            /\ UNCHANGED <<collecting, wake_5min, wake_hours, wake_days, elapsedTicks,
                           expireCount, fired, bootSecs, monoSecs,
                           battery_EEPROM_reporter_, eepromCalls, nElapses,
                           mgrVars, grpVars, recVars, restVars>>

(***************************************************************************)
(* thermal: ThermalPredictionsHelper                                       *)
(***************************************************************************)
MaxUpdates == 3      \* updateSensor calls that write a sample
MaxAdvances == 3     \* times the boot clock is advanced

kToleranceIntervalMs == 1000

\* The boot clock counts half milliseconds here, so that the conversion of an
\* age to milliseconds has something to drop.
UnitsPerMs == 2

\* boot_clock::time_point::min(), the timestamp of a sample never written; the
\* clock itself starts at 0 and does not go back.
TimeMin == 0 - 1

\* what the clock advances by between calls: 0.5 ms, 500 ms, 1000 ms
Advances == {1, 500 * UnitsPerMs, 1000 * UnitsPerMs}

NAN == "NAN"

\* PredictionSample(num_out_samples); seq is history, the number of the
\* updateSensor call that wrote the sample, 0 for none.
PredictionSample(num_out_samples) ==
    [timestamp |-> TimeMin, values |-> [i \in 0 .. (num_out_samples - 1) |-> NAN],
     seq |-> 0]

PredictorNames == {"predictor"}

PredictedNames == {"predicted"}

SensorNames == PredictorNames \cup PredictedNames \cup {"unknown"}

\* the arguments registerPredictorSensor is called with
PredictorInputs == {<<0, 2>>, <<2000, 0>>, <<2000, 2>>}

\* the durations registerPredictedSensor is called with
PredictedDurations == {0 - 1, 0, 500, 2000, 4000}

\* the vectors updateSensor is called with
UpdateValues ==
    {[i \in 0 .. 1 |-> IF i = 0 THEN "a0" ELSE "a1"],
     [i \in 0 .. 1 |-> IF i = 0 THEN "b0" ELSE "b1"],
     [i \in 0 .. 0 |-> "a0"]}

\* values.size()
Size(values) == Cardinality(DOMAIN values)

ThermalPredictionsHelper == [predictor_sensors_ |-> <<>>, predicted_sensors_ |-> <<>>]

Result(ok, helper) == [ok |-> ok, helper |-> helper]

registerPredictorSensor(helper, sensor_name, sample_duration, num_out_samples) ==
    IF sample_duration <= 0 \/ num_out_samples <= 0 THEN Result(FALSE, helper)
    ELSE IF sensor_name \in DOMAIN helper.predictor_sensors_ THEN Result(FALSE, helper)
    ELSE Result(TRUE,
                [helper EXCEPT !.predictor_sensors_ =
                    [name \in DOMAIN helper.predictor_sensors_ \cup {sensor_name} |->
                        IF name = sensor_name
                        THEN [sensor_name |-> sensor_name,
                              sample_duration |-> sample_duration,
                              num_out_samples |-> num_out_samples,
                              samples |-> [i \in 0 .. (num_out_samples - 1) |->
                                              PredictionSample(num_out_samples)],
                              cur_index |-> 0]
                        ELSE helper.predictor_sensors_[name]]])

registerPredictedSensor(helper, sensor_name, linked_sensor, duration) ==
    IF duration < 0 THEN Result(FALSE, helper)
    ELSE IF sensor_name \in DOMAIN helper.predicted_sensors_ THEN Result(FALSE, helper)
    ELSE IF linked_sensor \notin DOMAIN helper.predictor_sensors_ THEN Result(FALSE, helper)
    ELSE LET predictor_sensor_info == helper.predictor_sensors_[linked_sensor]
             max_prediction_duration ==
                 (predictor_sensor_info.num_out_samples - 1)
                     * predictor_sensor_info.sample_duration
             prediction_index == duration \div predictor_sensor_info.sample_duration
         IN  IF duration > max_prediction_duration THEN Result(FALSE, helper)
             ELSE Result(TRUE,
                         [helper EXCEPT !.predicted_sensors_ =
                             [name \in DOMAIN helper.predicted_sensors_ \cup {sensor_name} |->
                                 IF name = sensor_name
                                 THEN [sensor_name |-> sensor_name,
                                       linked_sensor |-> linked_sensor,
                                       duration |-> duration,
                                       prediction_index |-> prediction_index]
                                 ELSE helper.predicted_sensors_[name]]])

\* updateSensor at boot time now; count is the number of this call
updateSensor(helper, sensor_name, values, now, count) ==
    IF sensor_name \notin DOMAIN helper.predictor_sensors_ THEN Result(FALSE, helper)
    ELSE LET predictor_sensor_info == helper.predictor_sensors_[sensor_name]
         IN  IF Size(values) # predictor_sensor_info.num_out_samples
             THEN Result(FALSE, helper)
             ELSE Result(TRUE,
                         [helper EXCEPT !.predictor_sensors_[sensor_name] =
                             [predictor_sensor_info EXCEPT
                                 !.samples[predictor_sensor_info.cur_index] =
                                     [timestamp |-> now, values |-> values, seq |-> count],
                                 !.cur_index = (predictor_sensor_info.cur_index + 1)
                                                   % predictor_sensor_info.num_out_samples]])

\* The outcomes of readSensor.
ReadStatus(status, temp) == [status |-> status, temp |-> temp]

\* the age of a sample taken for milliseconds without a conversion
ElapsedUnits(now, timestamp) == now - timestamp

\* duration_cast<milliseconds>(now - timestamp): the difference of two times
\* in whole milliseconds, rounded toward zero.
ElapsedMs(now, timestamp) == (now - timestamp) \div UnitsPerMs

\* now - time_point::min() does not fit the 64-bit count of the clock. Where
\* the subtraction wraps, the result is now - 2^63 ns, below every window.
WrappedElapsedMs == 0 - (2 ^ 30)

\* The age readSensor computes for a sample: for a sample never written the
\* subtraction overflows, which is undefined: it wraps, or the build traps.
TimeElapsed(now, timestamp) ==
    IF timestamp = TimeMin
    THEN {[trap |-> FALSE, count |-> WrappedElapsedMs], [trap |-> TRUE, count |-> 0]}
    ELSE {[trap |-> FALSE, count |-> ElapsedMs(now, timestamp)]}

\* the do-while loop of readSensor from loop_count on: the set of outcomes
RECURSIVE readSensorLoop(_, _, _, _)
readSensorLoop(predictor_sensor_info, predicted_sensor_info, now, loop_count) ==
    LET below == predictor_sensor_info.cur_index - loop_count - 1
        index == IF below < 0 THEN below + predictor_sensor_info.num_out_samples ELSE below
        min_time_elapsed_ms == predicted_sensor_info.duration - kToleranceIntervalMs
        max_time_elapsed_ms == predicted_sensor_info.duration + kToleranceIntervalMs
        sample == predictor_sensor_info.samples[index]
        rest == IF loop_count + 1 < predictor_sensor_info.num_out_samples
                THEN readSensorLoop(predictor_sensor_info, predicted_sensor_info, now,
                                    loop_count + 1)
                ELSE {ReadStatus("UNDER_COLLECTING", NAN)}
    IN  UNION {IF time_elapsed.trap THEN {ReadStatus("Crashed", NAN)}
               ELSE IF time_elapsed.count <= max_time_elapsed_ms
                       /\ time_elapsed.count >= min_time_elapsed_ms
               THEN {ReadStatus("OKAY",
                                sample.values[predicted_sensor_info.prediction_index])}
               ELSE rest
                   : time_elapsed \in TimeElapsed(now, sample.timestamp)}

readSensor(helper, sensor_name, now) ==
    IF sensor_name \notin DOMAIN helper.predicted_sensors_
    THEN {ReadStatus("ERROR", NAN)}
    ELSE LET predicted_sensor_info == helper.predicted_sensors_[sensor_name]
         IN  IF predicted_sensor_info.linked_sensor \notin DOMAIN helper.predictor_sensors_
             THEN {ReadStatus("ERROR", NAN)}
             ELSE readSensorLoop(helper.predictor_sensors_[predicted_sensor_info.linked_sensor],
                                 predicted_sensor_info, now, 0)

NoRead == [sensor_name |-> "none", status |-> "none", temp |-> NAN]

ThermIdle ==
    /\ predictor_sensors_ = ThermalPredictionsHelper.predictor_sensors_
    /\ predicted_sensors_ = ThermalPredictionsHelper.predicted_sensors_
    /\ thermalNow = 0
    /\ readCall = NoRead
    /\ nUpdates = 0
    /\ nAdvances = 0

Helper == [predictor_sensors_ |-> predictor_sensors_, predicted_sensors_ |-> predicted_sensors_]

ThermOthers == <<mgrVars, grpVars, recVars, statVars, cfgVars, lineVars, estVars, supVars, bktVars, lockVars>>

RegisterPredictorSensor ==
    \E sensor_name \in PredictorNames, input \in PredictorInputs :
        \E done \in {registerPredictorSensor(Helper, sensor_name, input[1], input[2])} :
            /\ predictor_sensors_' = done.helper.predictor_sensors_
            /\ predicted_sensors_' = done.helper.predicted_sensors_
            /\ readCall' = NoRead
            /\ UNCHANGED <<thermalNow, nUpdates, nAdvances, ThermOthers>>

RegisterPredictedSensor ==
    \E sensor_name \in PredictedNames, linked_sensor \in PredictorNames,
       duration \in PredictedDurations :
        \E done \in {registerPredictedSensor(Helper, sensor_name, linked_sensor, duration)} :
            /\ predictor_sensors_' = done.helper.predictor_sensors_
            /\ predicted_sensors_' = done.helper.predicted_sensors_
            /\ readCall' = NoRead
            /\ UNCHANGED <<thermalNow, nUpdates, nAdvances, ThermOthers>>

UpdateSensor ==
    \E sensor_name \in PredictorNames \cup {"unknown"}, values \in UpdateValues :
        \E done \in {updateSensor(Helper, sensor_name, values, thermalNow, nUpdates + 1)} :
            /\ nUpdates < MaxUpdates
            /\ nUpdates' = IF done.ok THEN nUpdates + 1 ELSE nUpdates
            /\ predictor_sensors_' = done.helper.predictor_sensors_
            /\ predicted_sensors_' = done.helper.predicted_sensors_
            /\ readCall' = NoRead
            /\ UNCHANGED <<thermalNow, nAdvances, ThermOthers>>

ReadSensor ==
    \E sensor_name \in PredictedNames \cup {"unknown"} :
        \E read \in readSensor(Helper, sensor_name, thermalNow) :
            /\ readCall' = [sensor_name |-> sensor_name, status |-> read.status,
                            temp |-> read.temp]
            /\ UNCHANGED <<predictor_sensors_, predicted_sensors_, thermalNow, nUpdates,
                           nAdvances, ThermOthers>>

AdvanceClock ==
    \E advance \in Advances :
        /\ nAdvances < MaxAdvances
        /\ nAdvances' = nAdvances + 1
        /\ thermalNow' = thermalNow + advance
        /\ readCall' = NoRead
        /\ UNCHANGED <<predictor_sensors_, predicted_sensors_, nUpdates, ThermOthers>>

(***************************************************************************)
(* thermal: VirtualTempEstimator                                           *)
(***************************************************************************)
MaxEstimates == 3    \* Estimate calls on an estimator of the ML model
MaxFed == 2          \* Estimate calls on an estimator of the linear model

\* Temperatures and coefficients are whole numbers here; the sums stay far
\* from the precision of a float.

\* CalculateOffset: the value of the highest threshold below the value, or 0
RECURSIVE CalculateOffsetFrom(_, _, _, _)
CalculateOffsetFrom(offset_thresholds, offset_values, value, i) ==
    IF i <= 0 THEN 0
    ELSE IF offset_thresholds[i] < value THEN offset_values[i]
    ELSE CalculateOffsetFrom(offset_thresholds, offset_values, value, i - 1)

CalculateOffset(offset_thresholds, offset_values, value) ==
    CalculateOffsetFrom(offset_thresholds, offset_values, value, Len(offset_thresholds))

NoEstimate == [status |-> "none", invoked |-> FALSE, model_input |-> <<>>,
               thermistors |-> <<>>, sized |-> FALSE]

\* VirtualTempEstimator(estimationType, num_linked_sensors): the common data
\* and the data of both models as constructed. inits, estimates, fed, outputs,
\* accepted, rejects and last are history.
VirtualTempEstimator(estimationType, num_linked_sensors) ==
    [type |-> estimationType,
     num_linked_sensors |-> num_linked_sensors,
     use_prev_samples |-> FALSE,
     prev_samples_order |-> 1,
     cur_sample_count |-> 0,
     is_initialized |-> FALSE,
     offset_thresholds |-> <<>>,
     offset_values |-> <<>>,
     coefficients |-> <<>>,
     input_samples |-> <<>>,
     input_buffer |-> <<>>,
     input_range |-> <<>>,
     inits |-> <<>>,
     estimates |-> 0,
     fed |-> <<>>,
     outputs |-> <<>>,
     accepted |-> 0,
     rejects |-> 0,
     last |-> NoEstimate]

\* LinearModelInitData
LinearModelInitData(coefficients, prev_samples_order, offset_thresholds, offset_values) ==
    [coefficients |-> coefficients, prev_samples_order |-> prev_samples_order,
     use_prev_samples |-> prev_samples_order > 1,
     offset_thresholds |-> offset_thresholds, offset_values |-> offset_values]

LinearModelInitDatas ==
    {LinearModelInitData(<<1, 2, 3, 4>>, 2, <<100>>, <<5>>),
     LinearModelInitData(<<1, 1>>, 1, <<>>, <<>>),
     LinearModelInitData(<<1, 2, 3>>, 2, <<>>, <<>>)}

Status(status, estimator) == [status |-> status, estimator |-> estimator]

LinearModelInitialize(estimator, data) ==
    LET num_linked_sensors == estimator.num_linked_sensors
        called == [estimator EXCEPT !.inits = Append(@, data)]
    IN  IF num_linked_sensors = 0 \/ Len(data.coefficients) = 0 \/ data.prev_samples_order = 0
        THEN Status("kVtEstimatorInitFailed", called)
        ELSE IF Len(data.coefficients) # num_linked_sensors * data.prev_samples_order
        THEN Status("kVtEstimatorInvalidArgs", called)
        ELSE Status("kVtEstimatorOk",
                    [called EXCEPT
                        !.use_prev_samples = data.use_prev_samples,
                        !.prev_samples_order = data.prev_samples_order,
                        !.coefficients =
                            @ \o [i \in 1 .. data.prev_samples_order |->
                                     [j \in 1 .. num_linked_sensors |->
                                         data.coefficients[(i - 1) * num_linked_sensors + j]]],
                        !.offset_thresholds = data.offset_thresholds,
                        !.offset_values = data.offset_values,
                        !.is_initialized = TRUE])

RECURSIVE SumTo(_, _)
SumTo(terms, n) == IF n = 0 THEN 0 ELSE terms[n] + SumTo(terms, n - 1)

\* input_level after i steps back from cur_sample_index, wrapping to the end
InputLevel(cur_sample_index, i, prev_samples_order) ==
    (cur_sample_index + prev_samples_order - i) % prev_samples_order

\* LinearModelEstimate. input_samples is given capacity by reserve and keeps
\* size 0, so input_samples[i] is beyond its size, which is undefined: the
\* reserved storage is used as if it held vectors, or the access traps. The
\* result is the set of outcomes; an outcome with status "Crashed" ends the
\* process.
LinearModelEstimate(estimator, thermistors) ==
    LET prev_samples_order == estimator.prev_samples_order
        num_linked_sensors == estimator.num_linked_sensors
        called == [estimator EXCEPT !.fed = Append(@, thermistors), !.estimates = @ + 1]
        failed(status) == [called EXCEPT !.outputs = Append(@, <<status>>)]
        seeded == IF estimator.cur_sample_count = 0
                  THEN [i \in 0 .. (prev_samples_order - 1) |-> thermistors]
                  ELSE estimator.input_samples
        cur_sample_index == estimator.cur_sample_count % prev_samples_order
        input_samples == [seeded EXCEPT ![cur_sample_index] = thermistors]
        weighted ==
            SumTo([i \in 1 .. prev_samples_order |->
                      SumTo([j \in 1 .. num_linked_sensors |->
                                estimator.coefficients[i][j]
                                    * input_samples[InputLevel(cur_sample_index, i - 1,
                                                               prev_samples_order)][j]],
                            num_linked_sensors)],
                  prev_samples_order)
        estimated_value ==
            weighted + CalculateOffset(estimator.offset_thresholds,
                                       estimator.offset_values, weighted)
    IN  IF Len(thermistors) # num_linked_sensors
        THEN {Status("kVtEstimatorInvalidArgs", failed("kVtEstimatorInvalidArgs"))}
        ELSE IF ~estimator.is_initialized
        THEN {Status("kVtEstimatorInitFailed", failed("kVtEstimatorInitFailed"))}
        ELSE {Status("kVtEstimatorOk",
                     [called EXCEPT !.input_samples = input_samples,
                                    !.cur_sample_count = @ + 1,
                                    !.outputs = Append(@, <<"kVtEstimatorOk", estimated_value>>)]),
              Status("Crashed", failed("Crashed"))}

\* InputRangeInfo
InputRangeInfo(min_threshold, max_threshold) ==
    [min_threshold |-> min_threshold, max_threshold |-> max_threshold]

\* MLModelInitData, with what the wrapper library gives: whether it was
\* loaded and initialized, and the ranges of its input configuration.
MLModelInitData(use_prev_samples, prev_samples_order, enable_input_validation, loaded) ==
    [use_prev_samples |-> use_prev_samples, prev_samples_order |-> prev_samples_order,
     enable_input_validation |-> enable_input_validation, loaded |-> loaded]

MLModelInitDatas ==
    {MLModelInitData(TRUE, 2, TRUE, TRUE),
     MLModelInitData(FALSE, 1, TRUE, TRUE),
     MLModelInitData(TRUE, 2, FALSE, TRUE),
     MLModelInitData(FALSE, 2, TRUE, TRUE),
     MLModelInitData(TRUE, 2, TRUE, FALSE)}

\* the range the input configuration of the model gives for each sensor
ModelRange == InputRangeInfo(20, 40)

\* what new float[] holds before it is written: any value
Garbage == {0, 30}

TFliteInitialize(estimator, data, garbage) ==
    LET num_linked_sensors == estimator.num_linked_sensors
        called == [estimator EXCEPT !.inits = Append(@, data)]
        sized == [called EXCEPT
                     !.use_prev_samples = data.use_prev_samples,
                     !.prev_samples_order = data.prev_samples_order,
                     !.input_buffer =
                         [i \in 1 .. (num_linked_sensors * data.prev_samples_order) |->
                             garbage]]
    IN  IF num_linked_sensors = 0 \/ data.prev_samples_order < 1
           \/ (~data.use_prev_samples /\ data.prev_samples_order > 1)
        THEN Status("kVtEstimatorInitFailed", called)
        ELSE IF ~data.loaded
        THEN Status("kVtEstimatorInitFailed", sized)
        ELSE Status("kVtEstimatorOk",
                    [sized EXCEPT
                        !.input_range = IF data.enable_input_validation
                                        THEN [i \in 1 .. num_linked_sensors |-> ModelRange]
                                        ELSE <<>>,
                        !.is_initialized = TRUE])

\* the test of a value against its range that lets every value pass
OutOfRangeNever(value, range) == FALSE

\* thermistors[i] < min_threshold || thermistors[i] > max_threshold
OutOfRange(value, range) == value < range.min_threshold \/ value > range.max_threshold

\* the first index whose value fails its range, 0 for none
FirstOutOfRange(estimator, thermistors) ==
    LET bad == {i \in 1 .. estimator.num_linked_sensors :
                   /\ estimator.input_range # <<>>
                   /\ OutOfRange(thermistors[i], estimator.input_range[i])}
    IN  IF bad = {} THEN 0 ELSE CHOOSE i \in bad : \A other \in bad : i <= other

\* TFliteEstimate; the result is the set of outcomes, one for each result of
\* the invoke of the wrapper.
TFliteEstimate(estimator, thermistors) ==
    LET num_linked_sensors == estimator.num_linked_sensors
        prev_samples_order == estimator.prev_samples_order
        input_buffer_size == Len(estimator.input_buffer)
        cur_sample_index == estimator.cur_sample_count % prev_samples_order
        sample_start_index == cur_sample_index * num_linked_sensors
        bad == FirstOutOfRange(estimator, thermistors)
        copied == IF bad = 0 THEN num_linked_sensors ELSE bad - 1
        input_buffer ==
            [i \in 1 .. input_buffer_size |->
                IF i > sample_start_index /\ i <= sample_start_index + copied
                THEN thermistors[i - sample_start_index]
                ELSE estimator.input_buffer[i]]
        scratch_start == ((cur_sample_index + 1) * num_linked_sensors) % input_buffer_size
        model_input ==
            IF ~estimator.use_prev_samples THEN input_buffer
            ELSE [i \in 1 .. input_buffer_size |->
                     input_buffer[((scratch_start + i - 1) % input_buffer_size) + 1]]
        counted == [estimator EXCEPT !.estimates = @ + 1]
        call(status, ran, sized) ==
            [status |-> status, invoked |-> ran,
             model_input |-> IF ran THEN model_input ELSE <<>>,
             thermistors |-> thermistors, sized |-> sized]
    IN  IF ~estimator.is_initialized
        THEN {Status("kVtEstimatorInitFailed",
                     [counted EXCEPT !.last = call("kVtEstimatorInitFailed", FALSE, FALSE)])}
        ELSE IF Len(thermistors) # num_linked_sensors
        THEN {Status("kVtEstimatorInvalidArgs",
                     [counted EXCEPT !.last = call("kVtEstimatorInvalidArgs", FALSE, FALSE)])}
        ELSE IF bad # 0
        THEN {Status("kVtEstimatorLowConfidence",
                     [counted EXCEPT
                         !.input_buffer = input_buffer,
                         !.cur_sample_count = 0,
                         !.accepted = 0,
                         !.rejects = @ + 1,
                         !.last = call("kVtEstimatorLowConfidence", FALSE, TRUE)])}
        ELSE IF estimator.cur_sample_count + 1 < prev_samples_order
        THEN {Status("kVtEstimatorUnderSampling",
                     [counted EXCEPT
                         !.input_buffer = input_buffer,
                         !.cur_sample_count = @ + 1,
                         !.accepted = @ + 1,
                         !.last = call("kVtEstimatorUnderSampling", FALSE, TRUE)])}
        ELSE {Status(status,
                     [counted EXCEPT
                         !.input_buffer = input_buffer,
                         !.cur_sample_count = @ + 1,
                         !.accepted = @ + 1,
                         !.last = call(status, TRUE, TRUE)])
                 : status \in {"kVtEstimatorOk", "kVtEstimatorInvokeFailed"}}

\* the vectors Estimate is called with: all of them for the ML model, those
\* in range for the linear model
Thermistors(type) ==
    IF type = "kUseMLModel"
    THEN {<<30, 30>>, <<25, 35>>, <<10, 30>>, <<30, 50>>, <<50>>}
    ELSE {<<30, 30>>, <<25, 35>>}

\* the Estimate calls explored on an estimator; the third estimator is the
\* other one, used once
Budget(estimator, id) ==
    IF estimator.type = "kUseMLModel" THEN MaxEstimates
    ELSE IF id = 3 THEN 1 ELSE MaxFed

EstIdle ==
    /\ estimators = <<>>
    /\ estimatorTrap = FALSE

EstOthers == <<mgrVars, grpVars, recVars, statVars, cfgVars, lineVars, thermVars, supVars, bktVars, lockVars>>

\* one estimator of the ML model, constructed
TfliteInit ==
    /\ estimators = [id \in {1} |-> VirtualTempEstimator("kUseMLModel", 2)]
    /\ estimatorTrap = FALSE

\* three estimators of the linear model, constructed
LinearInit ==
    /\ estimators = [id \in {1, 2, 3} |-> VirtualTempEstimator("kUseLinearModel", 2)]
    /\ estimatorTrap = FALSE

\* Initialize, which its callers call once on an estimator
Initialize(id) ==
    /\ ~estimatorTrap
    /\ estimators[id].inits = <<>>
    /\ \E done \in
           IF estimators[id].type = "kUseMLModel"
           THEN {TFliteInitialize(estimators[id], data, garbage) :
                    data \in MLModelInitDatas, garbage \in Garbage}
           ELSE {LinearModelInitialize(estimators[id], data) : data \in LinearModelInitDatas} :
           estimators' = [estimators EXCEPT ![id] = done.estimator]
    /\ UNCHANGED <<estimatorTrap, EstOthers>>

Estimate(id) ==
    /\ ~estimatorTrap
    /\ estimators[id].estimates < Budget(estimators[id], id)
    /\ \E thermistors \in Thermistors(estimators[id].type) :
           \E done \in
               IF estimators[id].type = "kUseMLModel"
               THEN TFliteEstimate(estimators[id], thermistors)
               ELSE LinearModelEstimate(estimators[id], thermistors) :
               /\ estimators' = [estimators EXCEPT ![id] = done.estimator]
               /\ estimatorTrap' = (done.status = "Crashed")
    /\ UNCHANGED EstOthers

(***************************************************************************)
(* thermal: VirtualTempEstimator, calls of several threads                 *)
(***************************************************************************)
MaxEstimateCalls == 2    \* Estimate calls started on an estimator

Callers == {1, 2}

NoCall == [pc |-> "idle", op |-> "none", id |-> 0, data |-> <<>>, thermistors |-> <<>>,
           prev_samples_order |-> 0, num_linked_sensors |-> 0, unlocked |-> {}]

LockIdle ==
    /\ estCalls = <<>>
    /\ mgrCalls = <<>>

LockOthers == <<mgrVars, grpVars, recVars, statVars, cfgVars, lineVars, thermVars, supVars, bktVars>>

\* one estimator of the linear model and one of the ML model, constructed,
\* and two threads that call them
CallsInit ==
    /\ estimators = (1 :> VirtualTempEstimator("kUseLinearModel", 2))
                        @@ (2 :> VirtualTempEstimator("kUseMLModel", 2))
    /\ estimatorTrap = FALSE
    /\ estCalls = [c \in Callers |-> NoCall]
    /\ mgrCalls = <<>>

\* the data the threads call Initialize with
CallDatas(type) ==
    IF type = "kUseMLModel"
    THEN {[data |-> MLModelInitData(TRUE, 2, TRUE, TRUE), garbage |-> 0]}
    ELSE LinearModelInitDatas

\* the vectors the threads call Estimate with
CallThermistors(type) ==
    IF type = "kUseMLModel" THEN {<<30, 30>>, <<10, 30>>} ELSE {<<30, 30>>, <<25, 35>>}

\* linear_model_instance_->mutex or tflite_methods.mutex of the estimator is
\* held by a call that is between its lock and its return
MutexHeld(calls_, id) == \E c \in DOMAIN calls_ : calls_[c].pc = "held" /\ calls_[c].id = id

\* an Initialize on the estimator holds the mutex
Initializing(calls_, id) ==
    \E c \in DOMAIN calls_ :
        calls_[c].pc = "held" /\ calls_[c].id = id /\ calls_[c].op = "Initialize"

\* what the body of Initialize does to the estimator
InitializeBody(estimator, data) ==
    IF estimator.type = "kUseMLModel"
    THEN TFliteInitialize(estimator, data.data, data.garbage)
    ELSE LinearModelInitialize(estimator, data)

\* common_instance_->prev_samples_order read with no lock held: the value of
\* the field, or, while an Initialize holds the mutex, the value it writes
\* (the read and the write are not ordered)
ReadOfOrder(calls_, estimator, id) ==
    {estimator.prev_samples_order}
        \cup {InitializeBody(estimator, calls_[c].data).estimator.prev_samples_order :
                 c \in {c \in DOMAIN calls_ : /\ calls_[c].pc = "held"
                                              /\ calls_[c].id = id
                                              /\ calls_[c].op = "Initialize"}}

\* the reserved storage of input_samples seen with an order: the levels that
\* were never written hold any value
Reserved(input_samples, order, num_linked_sensors, garbage) ==
    [i \in 0 .. (order - 1) |->
        IF i \in DOMAIN input_samples THEN input_samples[i]
        ELSE [j \in 1 .. num_linked_sensors |-> garbage]]

\* the body of Estimate under the mutex; the linear model uses the order it
\* read before the lock
EstimateBody(estimator, call) ==
    IF estimator.type = "kUseMLModel"
    THEN TFliteEstimate(estimator, call.thermistors)
    ELSE UNION {
            {Status(done.status,
                    [done.estimator EXCEPT !.prev_samples_order = estimator.prev_samples_order])
                : done \in LinearModelEstimate(
                      [estimator EXCEPT
                          !.prev_samples_order = call.prev_samples_order,
                          !.input_samples = Reserved(@, call.prev_samples_order,
                                                     call.num_linked_sensors, garbage)],
                      call.thermistors)}
            : garbage \in Garbage}

\* Initialize up to its lock: num_linked_sensors is read, then the thread
\* waits for the mutex. Callers call Initialize once on an estimator.
InitializeCall(c, id) ==
    /\ ~estimatorTrap
    /\ estCalls[c].pc = "idle"
    /\ estimators[id].inits = <<>>
    /\ \A other \in Callers : ~(estCalls[other].op = "Initialize" /\ estCalls[other].id = id)
    /\ \E data \in CallDatas(estimators[id].type) :
           estCalls' = [estCalls EXCEPT ![c] =
                           [pc |-> "lock", op |-> "Initialize", id |-> id, data |-> data,
                            thermistors |-> <<>>, prev_samples_order |-> 0,
                            num_linked_sensors |-> estimators[id].num_linked_sensors,
                            unlocked |-> {"num_linked_sensors"}]]
    /\ UNCHANGED <<estimators, estimatorTrap, mgrCalls, LockOthers>>

\* Estimate up to its lock: LinearModelEstimate reads prev_samples_order and
\* num_linked_sensors, TFliteEstimate reads nothing, then the thread waits
EstimateCall(c, id) ==
    /\ ~estimatorTrap
    /\ estCalls[c].pc = "idle"
    /\ estimators[id].estimates
           + Cardinality({other \in Callers : /\ estCalls[other].op = "Estimate"
                                               /\ estCalls[other].id = id})
         < MaxEstimateCalls
    /\ \E thermistors \in CallThermistors(estimators[id].type) :
           \E order \in IF estimators[id].type = "kUseMLModel" THEN {0}
                        ELSE ReadOfOrder(estCalls, estimators[id], id) :
               estCalls' = [estCalls EXCEPT ![c] =
                               [pc |-> "lock", op |-> "Estimate", id |-> id, data |-> <<>>,
                                thermistors |-> thermistors, prev_samples_order |-> order,
                                num_linked_sensors |->
                                    IF estimators[id].type = "kUseMLModel" THEN 0
                                    ELSE estimators[id].num_linked_sensors,
                                unlocked |->
                                    IF estimators[id].type = "kUseMLModel" THEN {}
                                    ELSE {"prev_samples_order", "num_linked_sensors"}]]
    /\ UNCHANGED <<estimators, estimatorTrap, mgrCalls, LockOthers>>

\* a lock that lets a thread in while another holds the mutex
MutexFreeAlways(calls_, id) == TRUE

MutexFree(calls_, id) == ~MutexHeld(calls_, id)

\* std::unique_lock lock(mutex): the thread gets the mutex when it is free
Lock(c) ==
    /\ ~estimatorTrap
    /\ estCalls[c].pc = "lock"
    /\ MutexFree(estCalls, estCalls[c].id)
    /\ estCalls' = [estCalls EXCEPT ![c].pc = "held"]
    /\ UNCHANGED <<estimators, estimatorTrap, mgrCalls, LockOthers>>

\* the body of Initialize and its return, which releases the mutex
InitializeReturn(c) ==
    /\ ~estimatorTrap
    /\ estCalls[c].pc = "held"
    /\ estCalls[c].op = "Initialize"
    /\ estimators' = [estimators EXCEPT ![estCalls[c].id] =
                         InitializeBody(@, estCalls[c].data).estimator]
    /\ estCalls' = [estCalls EXCEPT ![c] = NoCall]
    /\ UNCHANGED <<estimatorTrap, mgrCalls, LockOthers>>

\* the body of Estimate and its return, which releases the mutex
EstimateReturn(c) ==
    /\ ~estimatorTrap
    /\ estCalls[c].pc = "held"
    /\ estCalls[c].op = "Estimate"
    /\ \E done \in EstimateBody(estimators[estCalls[c].id], estCalls[c]) :
           /\ estimators' = [estimators EXCEPT ![estCalls[c].id] = done.estimator]
           /\ estimatorTrap' = (done.status = "Crashed")
    /\ estCalls' = [estCalls EXCEPT ![c] = NoCall]
    /\ UNCHANGED <<mgrCalls, LockOthers>>

(***************************************************************************)
(* power: SupportManager                                                   *)
(***************************************************************************)
kModeEarliestVersionMap ==
    [type \in {"DOUBLE_TAP_TO_WAKE", "LOW_POWER", "SUSTAINED_PERFORMANCE",
               "FIXED_PERFORMANCE", "VR", "LAUNCH", "EXPENSIVE_RENDERING", "INTERACTIVE",
               "DEVICE_IDLE", "DISPLAY_INACTIVE", "AUDIO_STREAMING_LOW_LATENCY",
               "CAMERA_STREAMING_SECURE", "CAMERA_STREAMING_LOW", "CAMERA_STREAMING_MID",
               "CAMERA_STREAMING_HIGH", "GAME", "GAME_LOADING", "DISPLAY_CHANGE",
               "AUTOMOTIVE_PROJECTION"} |->
        IF type \in {"GAME", "GAME_LOADING"} THEN 3
        ELSE IF type \in {"DISPLAY_CHANGE", "AUTOMOTIVE_PROJECTION"} THEN 5
        ELSE 1]

kBoostEarliestVersionMap ==
    [type \in {"INTERACTION", "DISPLAY_UPDATE_IMMINENT", "ML_ACC", "AUDIO_LAUNCH",
               "CAMERA_LAUNCH", "CAMERA_SHOT"} |-> 1]

kSessionHintEarliestVersionMap ==
    [type \in {"CPU_LOAD_UP", "CPU_LOAD_DOWN", "CPU_LOAD_RESET", "CPU_LOAD_RESUME",
               "POWER_EFFICIENCY", "GPU_LOAD_UP", "GPU_LOAD_DOWN", "GPU_LOAD_RESET",
               "CPU_LOAD_SPIKE", "GPU_LOAD_SPIKE"} |->
        IF type \in {"GPU_LOAD_UP", "GPU_LOAD_DOWN", "GPU_LOAD_RESET"} THEN 5
        ELSE IF type \in {"CPU_LOAD_SPIKE", "GPU_LOAD_SPIKE"} THEN 6
        ELSE 4]

kSessionModeEarliestVersionMap ==
    [type \in {"POWER_EFFICIENCY", "GRAPHICS_PIPELINE", "AUTO_CPU", "AUTO_GPU"} |->
        IF type = "POWER_EFFICIENCY" THEN 5 ELSE 6]

kSessionTagEarliestVersionMap ==
    [type \in {"OTHER", "SURFACEFLINGER", "HWUI", "GAME", "APP", "SYSUI"} |->
        IF type = "SYSUI" THEN 6 ELSE 5]

\* the versions of the IPower interface the service is built against
Versions == 0 .. 6

\* the names a configuration of HintManager may hold as hints and as ADPF
\* profiles
ConfiguredNames == {"LOW_POWER", "GAME", "INTERACTION"}

\* HintManager::IsHintSupported and IsAdpfProfileSupported
IsHintSupported(manager, name) == name \in manager.hints

IsAdpfProfileSupported(manager, name) == name \in manager.profiles

\* the version test that lets every version pass
BelowEarliestNever(version, earliest) == FALSE

\* IPower::version < it->second
BelowEarliest(version, earliest) == version < earliest

modeSupported(version, manager, type) ==
    IF type \notin DOMAIN kModeEarliestVersionMap
       \/ BelowEarliest(version, kModeEarliestVersionMap[type])
    THEN FALSE
    ELSE LET supported == IsHintSupported(manager, type)
         IN  IF type = "LOW_POWER" THEN TRUE
             ELSE IF ~supported /\ IsAdpfProfileSupported(manager, type) THEN TRUE
             ELSE supported

boostSupported(version, manager, type) ==
    IF type \notin DOMAIN kBoostEarliestVersionMap
       \/ BelowEarliest(version, kBoostEarliestVersionMap[type])
    THEN FALSE
    ELSE LET supported == IsHintSupported(manager, type)
         IN  IF ~supported /\ IsAdpfProfileSupported(manager, type) THEN TRUE
             ELSE supported

sessionHintSupported(version, type) ==
    IF type \notin DOMAIN kSessionHintEarliestVersionMap
       \/ BelowEarliest(version, kSessionHintEarliestVersionMap[type])
    THEN FALSE
    ELSE type # "POWER_EFFICIENCY"

sessionModeSupported(version, type) ==
    IF type \notin DOMAIN kSessionModeEarliestVersionMap
       \/ BelowEarliest(version, kSessionModeEarliestVersionMap[type])
    THEN FALSE
    ELSE type \notin {"POWER_EFFICIENCY", "GRAPHICS_PIPELINE"}

sessionTagSupported(version, type) ==
    IF type \notin DOMAIN kSessionTagEarliestVersionMap
       \/ BelowEarliest(version, kSessionTagEarliestVersionMap[type])
    THEN FALSE
    ELSE TRUE

NoQuery == [query |-> "none", type |-> "none", earliest |-> 0, supported |-> FALSE]

SupIdle ==
    /\ IPowerVersion = 0
    /\ hintManager = [hints |-> {}, profiles |-> {}]
    /\ supportCall = NoQuery

\* the service built against a version, with a configuration loaded
SupportInit ==
    /\ IPowerVersion \in Versions
    /\ hintManager \in [hints : SUBSET ConfiguredNames, profiles : SUBSET ConfiguredNames]
    /\ supportCall = NoQuery

SupOthers == <<mgrVars, grpVars, recVars, statVars, cfgVars, lineVars, thermVars, estVars, bktVars, lockVars>>

Query(query, type, earliest, supported) ==
    /\ supportCall' = [query |-> query, type |-> type, earliest |-> earliest,
                       supported |-> supported]
    /\ UNCHANGED <<IPowerVersion, hintManager, SupOthers>>

ModeSupported ==
    \E type \in DOMAIN kModeEarliestVersionMap :
        Query("modeSupported", type, kModeEarliestVersionMap[type],
              modeSupported(IPowerVersion, hintManager, type))

BoostSupported ==
    \E type \in DOMAIN kBoostEarliestVersionMap :
        Query("boostSupported", type, kBoostEarliestVersionMap[type],
              boostSupported(IPowerVersion, hintManager, type))

SessionHintSupported ==
    \E type \in DOMAIN kSessionHintEarliestVersionMap :
        Query("sessionHintSupported", type, kSessionHintEarliestVersionMap[type],
              sessionHintSupported(IPowerVersion, type))

SessionModeSupported ==
    \E type \in DOMAIN kSessionModeEarliestVersionMap :
        Query("sessionModeSupported", type, kSessionModeEarliestVersionMap[type],
              sessionModeSupported(IPowerVersion, type))

SessionTagSupported ==
    \E type \in DOMAIN kSessionTagEarliestVersionMap :
        Query("sessionTagSupported", type, kSessionTagEarliestVersionMap[type],
              sessionTagSupported(IPowerVersion, type))

(***************************************************************************)
(* power: FrameBuckets::addUpNewFrames                                     *)
(***************************************************************************)
MaxAddUps == 2

\* the two FrameBuckets objects of the calls
BucketIds == {1, 2}

\* the sum a bucket holds of its five jank fields
JankFrames(b) ==
    b.numOfFrames17to25ms + b.numOfFrames25to34ms + b.numOfFrames34to67ms
        + b.numOfFrames67to100ms + b.numOfFramesOver100ms

\* the buckets updateFrameBuckets can have filled: each jank field one of
\* counts, the total the jank frames and some of normal
FilledBuckets(counts, normal) ==
    UNION {{[totalNumOfFrames |-> j17 + j25 + j34 + j67 + j100 + n,
             numOfFrames17to25ms |-> j17, numOfFrames25to34ms |-> j25,
             numOfFrames34to67ms |-> j34, numOfFrames67to100ms |-> j67,
             numOfFramesOver100ms |-> j100] :
                j17 \in counts, j25 \in counts, j34 \in counts, j67 \in counts,
                j100 \in counts} : n \in normal}

\* addUpNewFrames that adds the total only
addUpTotalOnly(buckets, newFrames) ==
    [buckets EXCEPT !.totalNumOfFrames = @ + newFrames.totalNumOfFrames]

\* FrameBuckets::addUpNewFrames: the fields of *this after the call
addUpNewFrames(buckets, newFrames) ==
    [totalNumOfFrames |-> buckets.totalNumOfFrames + newFrames.totalNumOfFrames,
     numOfFrames17to25ms |-> buckets.numOfFrames17to25ms + newFrames.numOfFrames17to25ms,
     numOfFrames25to34ms |-> buckets.numOfFrames25to34ms + newFrames.numOfFrames25to34ms,
     numOfFrames34to67ms |-> buckets.numOfFrames34to67ms + newFrames.numOfFrames34to67ms,
     numOfFrames67to100ms |-> buckets.numOfFrames67to100ms + newFrames.numOfFrames67to100ms,
     numOfFramesOver100ms |-> buckets.numOfFramesOver100ms + newFrames.numOfFramesOver100ms]

NoAddUp == [a |-> 0, b |-> 0, before |-> <<FrameBuckets, FrameBuckets>>]

BktIdle ==
    /\ bucketObjs = <<FrameBuckets, FrameBuckets>>
    /\ addUpCall = NoAddUp
    /\ nAddUps = 0

BucketsInit ==
    /\ bucketObjs \in {<<a, b>> : a \in FilledBuckets({0, 1}, {0, 1}),
                                  b \in FilledBuckets({0, 2}, {0, 1})}
    /\ addUpCall = NoAddUp
    /\ nAddUps = 0

BktOthers == <<mgrVars, grpVars, recVars, statVars, cfgVars, lineVars, thermVars, estVars, supVars, lockVars>>

\* a.addUpNewFrames(b) for two objects: the fields of b are read through the
\* const reference, those of a are assigned
AddUpNewFrames ==
    /\ nAddUps < MaxAddUps
    /\ \E a \in BucketIds : \E b \in BucketIds \ {a} :
        /\ bucketObjs' = [bucketObjs EXCEPT ![a] = addUpNewFrames(@, bucketObjs[b])]
        /\ addUpCall' = [a |-> a, b |-> b, before |-> bucketObjs]
    /\ nAddUps' = nAddUps + 1
    /\ UNCHANGED BktOthers

(***************************************************************************)
(* ChannelManager with its ChannelGroups: the calls of several binder      *)
(* threads, the dispatch threads of the groups and the clients.  A call    *)
(* holds mChannelManagerMutex from its lock to its return; the group in    *)
(* mChannelGroups[g] is the object built in place g.                       *)
(***************************************************************************)
MaxManagedCalls == 2     \* getChannelConfig and closeChannel calls made
MaxManagedWrites == 2    \* client writes (tampering included)
FairManagedCalls == 2    \* calls made in the fair specification
FairManagedWrites == 1   \* client writes in the fair specification

ManagedCallers == {1, 2}
ManagedGroups == {0, 1}

\* the identities registered at the start: they fill group 0 and open group 1
ManagedIds == kMaxChannels + 1

\* the identities the calls are made for: the last of group 0 and the one of
\* group 1, which have the same uid
CalledIds == {kMaxChannels, kMaxChannels + 1}

NoManagerCall == [pc |-> "idle", op |-> "none", i |-> 0, g |-> -1]

\* the map and the groups after getChannelConfig for the identities 1 .. n
RECURSIVE Registered(_)
Registered(n) ==
    IF n = 0 THEN [map |-> <<>>, groups |-> <<>>]
    ELSE LET before == Registered(n - 1)
             r == getOrCreateChannel(before.map, before.groups, Tgid(n), Uid(n), TRUE)
         IN  [map |-> r.map, groups |-> r.groups]

\* a manager with ManagedIds identities registered, the threads of its two
\* groups waiting in EventFlag::wait, and no call in progress
ManagedInit(envelope) ==
    /\ mChannelMap = Registered(ManagedIds).map
    /\ mChannelGroups = Registered(ManagedIds).groups
    /\ aborted = FALSE
    /\ lastRet = [op |-> "none", ok |-> TRUE, created |-> FALSE]
    /\ registered = 1 .. ManagedIds
    /\ allocated = <<0, 1>>
    /\ limits = [ids |-> 0, closes |-> 0, invalid |-> 0]
    /\ nCloses = 0
    /\ nInvalid = 0
    /\ life = [g \in ManagedGroups |-> "live"]
    /\ mDestructing = [g \in ManagedGroups |-> FALSE]
    /\ grp = [g \in ManagedGroups |-> Registered(ManagedIds).groups[g]]
    /\ flag = [g \in ManagedGroups |-> {}]
    /\ queue = [g \in ManagedGroups |-> [s \in Slots |-> EmptyQueue]]
    /\ thr = [g \in ManagedGroups |-> [IdleThread EXCEPT !.pc = "wait"]]
    /\ calls = [g \in ManagedGroups |-> <<>>]
    /\ blocklist = {}
    /\ glimits = envelope
    /\ nWrites = 0
    /\ nOwner = 0
    /\ mgrCalls = [c \in ManagedCallers |-> NoManagerCall]
    /\ estCalls = <<>>

ManagedOthers == <<recVars, statVars, cfgVars, lineVars, thermVars, estVars, supVars, bktVars,
                   estCalls>>

\* the call holds mChannelManagerMutex: it is between its lock and its return
HoldsManagerMutex(call) == call.pc \in {"lockGroup", "destroy", "wake", "join"}

\* a lock that lets a thread in while another holds the mutex
ManagerMutexFreeAlways(mcalls) == TRUE

ManagerMutexFree(mcalls) == \A c \in DOMAIN mcalls : ~HoldsManagerMutex(mcalls[c])

\* a binder thread calls getChannelConfig(tgid, uid, config) or
\* closeChannel(tgid, uid) for identity i and comes to the lock; of the idle
\* threads the lowest makes the call
ManagedCall(c, op, i) ==
    /\ ~aborted
    /\ mgrCalls[c].pc = "idle"
    /\ \A d \in ManagedCallers : d < c => mgrCalls[d].pc # "idle"
    /\ nOwner < glimits.owner
    /\ nOwner' = nOwner + 1
    /\ mgrCalls' = [mgrCalls EXCEPT ![c] = [pc |-> "lockManager", op |-> op, i |-> i, g |-> -1]]
    /\ UNCHANGED <<mChannelMap, mChannelGroups, aborted, lastRet, registered, allocated,
                   limits, nCloses, nInvalid, life, mDestructing, grp, flag, queue, thr,
                   calls, blocklist, glimits, nWrites, ManagedOthers>>

\* std::scoped_lock lock{mChannelManagerMutex} and the call up to the first
\* call on a group: closeChannel looks the key and the group up and returns
\* false without them; getOrCreateChannel looks the key up, scans the groups
\* with getChannelCount() and emplaces a new ChannelGroup, whose constructor
\* starts its thread, when none has room.
ManagedLock(c) ==
    LET call == mgrCalls[c]
        key == ChannelMapKey(Tgid(call.i), Uid(call.i))
        r == getOrCreateChannel(mChannelMap, mChannelGroups, Tgid(call.i), Uid(call.i), TRUE)
        known == /\ KeyPresent(mChannelMap, key)
                 /\ groupIdOf(mChannelMap[key]) \in DOMAIN mChannelGroups
    IN  /\ ~aborted
        /\ call.pc = "lockManager"
        /\ ManagerMutexFree(mgrCalls)
        /\ IF call.op = "closeChannel"
           THEN /\ IF known
                   THEN /\ mgrCalls' = [mgrCalls EXCEPT ![c].pc = "lockGroup",
                                                        ![c].g = groupIdOf(mChannelMap[key])]
                        /\ UNCHANGED lastRet
                   ELSE /\ mgrCalls' = [mgrCalls EXCEPT ![c] = NoManagerCall]
                        /\ lastRet' = [op |-> "closeChannel", ok |-> FALSE, created |-> FALSE]
                /\ UNCHANGED <<mChannelGroups, allocated, life, mDestructing, grp, flag, queue,
                               thr, calls>>
           ELSE /\ r.groupId \in ManagedGroups
                /\ mgrCalls' = [mgrCalls EXCEPT ![c].pc = "lockGroup", ![c].g = r.groupId]
                /\ IF r.newGroup
                   THEN /\ mChannelGroups' =
                               [g \in DOMAIN mChannelGroups \cup {r.groupId} |->
                                   IF g = r.groupId THEN NewGroup(g) ELSE mChannelGroups[g]]
                        /\ allocated' = Append(allocated, r.groupId)
                        /\ life' = [life EXCEPT ![r.groupId] = "live"]
                        /\ mDestructing' = [mDestructing EXCEPT ![r.groupId] = FALSE]
                        /\ grp' = [grp EXCEPT ![r.groupId] = NewGroup(r.groupId)]
                        /\ flag' = [flag EXCEPT ![r.groupId] = {}]
                        /\ queue' = [queue EXCEPT ![r.groupId] = [s \in Slots |-> EmptyQueue]]
                        /\ thr' = [thr EXCEPT ![r.groupId] = [IdleThread EXCEPT !.pc = "start"]]
                        /\ calls' = [calls EXCEPT ![r.groupId] = <<>>]
                   ELSE UNCHANGED <<mChannelGroups, allocated, life, mDestructing, grp, flag,
                                    queue, thr, calls>>
                /\ UNCHANGED lastRet
        /\ UNCHANGED <<mChannelMap, aborted, registered, limits, nCloses, nInvalid, blocklist,
                       glimits, nWrites, nOwner, ManagedOthers>>

\* The call on the group, which takes mGroupMutex for its whole body, and
\* what follows it under the manager mutex.  getChannelConfig: createChannel
\* or getChannel, the key stored, the return.  closeChannel: removeChannel;
\* with channels left the key is erased and the call returns, with none the
\* group is erased, which runs its destructor.
ManagedGroupCall(c) ==
    LET call == mgrCalls[c]
        g == call.g
        key == ChannelMapKey(Tgid(call.i), Uid(call.i))
        r == getOrCreateChannel(mChannelMap, mChannelGroups, Tgid(call.i), Uid(call.i), TRUE)
        removed == removeChannel(mChannelGroups[g], offsetOf(mChannelMap[key]))
        groups1 == EraseIfEmpty(mChannelGroups, g, removed.group)
    IN  /\ ~aborted
        /\ call.pc = "lockGroup"
        /\ ~MutexHeldByThread(g)
        /\ IF call.op = "getChannelConfig"
           THEN /\ mChannelMap' = r.map
                /\ mChannelGroups' = r.groups
                /\ grp' = [grp EXCEPT ![g] = r.groups[g]]
                /\ queue' = IF r.created
                            THEN [queue EXCEPT ![g][offsetOf(r.channel.mId)] = EmptyQueue]
                            ELSE queue
                /\ aborted' = r.fatal
                /\ lastRet' = [op |-> "getChannelConfig",
                               ok |-> ~r.fatal /\ isValid(r.channel), created |-> r.created]
                /\ registered' = registered \cup {call.i}
                /\ mgrCalls' = [mgrCalls EXCEPT ![c] = NoManagerCall]
                /\ UNCHANGED nCloses
           ELSE IF ~removed.ok
           THEN /\ lastRet' = [op |-> "closeChannel", ok |-> FALSE, created |-> FALSE]
                /\ mgrCalls' = [mgrCalls EXCEPT ![c] = NoManagerCall]
                /\ UNCHANGED <<mChannelMap, mChannelGroups, grp, queue, aborted, registered,
                               nCloses>>
           ELSE IF g \in DOMAIN groups1
           THEN /\ mChannelGroups' = groups1
                /\ grp' = [grp EXCEPT ![g] = removed.group]
                /\ mChannelMap' = [k \in DOMAIN mChannelMap \ {key} |-> mChannelMap[k]]
                /\ registered' = registered \ {call.i}
                /\ nCloses' = nCloses + 1
                /\ lastRet' = [op |-> "closeChannel", ok |-> TRUE, created |-> FALSE]
                /\ mgrCalls' = [mgrCalls EXCEPT ![c] = NoManagerCall]
                /\ UNCHANGED <<queue, aborted>>
           ELSE /\ mChannelGroups' = [mChannelGroups EXCEPT ![g] = removed.group]
                /\ grp' = [grp EXCEPT ![g] = removed.group]
                /\ mgrCalls' = [mgrCalls EXCEPT ![c].pc = "destroy"]
                /\ UNCHANGED <<mChannelMap, queue, aborted, lastRet, registered, nCloses>>
        /\ UNCHANGED <<allocated, limits, nInvalid, life, mDestructing, flag, thr, calls,
                       blocklist, glimits, nWrites, nOwner, ManagedOthers>>

\* mChannelGroups.erase(groupId), ~ChannelGroup: mDestructing = true
ManagedDestroyBegin(c) ==
    LET g == mgrCalls[c].g
    IN  /\ mgrCalls[c].pc = "destroy"
        /\ mgrCalls' = [mgrCalls EXCEPT ![c].pc = "wake"]
        /\ life' = [life EXCEPT ![g] = "destructing"]
        /\ mDestructing' = [mDestructing EXCEPT ![g] = TRUE]
        /\ UNCHANGED <<mChannelMap, mChannelGroups, aborted, lastRet, registered, allocated,
                       limits, nCloses, nInvalid, grp, flag, queue, thr, calls, blocklist,
                       glimits, nWrites, nOwner, ManagedOthers>>

\* ~ChannelGroup: flag->wake(0xffffffff)
ManagedDestroyWake(c) ==
    LET g == mgrCalls[c].g
    IN  /\ mgrCalls[c].pc = "wake"
        /\ mgrCalls' = [mgrCalls EXCEPT ![c].pc = "join"]
        /\ life' = [life EXCEPT ![g] = "joining"]
        /\ flag' = [flag EXCEPT ![g] = DestructorWakeWord(flag[g])]
        /\ UNCHANGED <<mChannelMap, mChannelGroups, aborted, lastRet, registered, allocated,
                       limits, nCloses, nInvalid, mDestructing, grp, queue, thr, calls,
                       blocklist, glimits, nWrites, nOwner, ManagedOthers>>

\* ~ChannelGroup: mGroupThread.join() returns and the members are destroyed;
\* closeChannel erases the key and returns
ManagedDestroyJoin(c) ==
    LET call == mgrCalls[c]
        g == call.g
        key == ChannelMapKey(Tgid(call.i), Uid(call.i))
        groups1 == EraseIfEmpty(mChannelGroups, g, mChannelGroups[g])
    IN  /\ call.pc = "join"
        /\ thr[g].pc = "exited"
        /\ mgrCalls' = [mgrCalls EXCEPT ![c] = NoManagerCall]
        /\ life' = [life EXCEPT ![g] = "none"]
        /\ mDestructing' = [mDestructing EXCEPT ![g] = FALSE]
        /\ grp' = [grp EXCEPT ![g] = NewGroup(g)]
        /\ flag' = [flag EXCEPT ![g] = {}]
        /\ queue' = [queue EXCEPT ![g] = [s \in Slots |-> EmptyQueue]]
        /\ thr' = [thr EXCEPT ![g] = IdleThread]
        /\ calls' = [calls EXCEPT ![g] = <<>>]
        /\ mChannelGroups' = groups1
        /\ mChannelMap' = [k \in DOMAIN mChannelMap \ {key} |-> mChannelMap[k]]
        /\ registered' = registered \ {call.i}
        /\ allocated' = IF DOMAIN groups1 = {} THEN <<>> ELSE allocated
        /\ nCloses' = nCloses + 1
        /\ lastRet' = [op |-> "closeChannel", ok |-> TRUE, created |-> FALSE]
        /\ UNCHANGED <<aborted, limits, nInvalid, blocklist, glimits, nWrites, nOwner,
                       ManagedOthers>>

(***************************************************************************)
(* pixelstats: the areas of SysfsCollector and the paths that configure     *)
(* them                                                                    *)
(***************************************************************************)

\* The keys of the JSON configuration the modelled areas read.
ConfigKeys == {"BrownoutCsvPath", "BrownoutLogPath", "PowerMitigationStatsPath",
               "CycleCountBinsPath", "EEPROMPath", "SlowioReadCntPath",
               "PowerMitigationDurationPath"}

\* A key is no member of the configuration ({}), or a member with a string,
\* which may be the empty string.
ConfigValues == {{}, {""}, {"/sys/path"}}

\* getCStringOrDefault: the string of the key, "" for a key that is no member.
getCStringOrDefault(config, key) ==
    IF config[key] = {} THEN "" ELSE CHOOSE value \in config[key] : TRUE

\* A call of a reporter with the path it is given.
ReporterCall(reporter, path) == [reporter |-> reporter, path |-> path]

\* logBrownout: the csv reporter when the csv path is empty, otherwise the
\* log reporter when the log path is empty.
logBrownout(config) ==
    LET brownoutCsvPath == getCStringOrDefault(config, "BrownoutCsvPath")
        brownoutLogPath == getCStringOrDefault(config, "BrownoutLogPath")
    IN  IF brownoutCsvPath = ""
        THEN {ReporterCall("logBrownoutCsv", brownoutCsvPath)}
        ELSE IF brownoutLogPath = ""
             THEN {ReporterCall("logBrownout", brownoutLogPath)}
             ELSE {}

\* logPerHour: the memory and zram metrics always, the mitigation statistics
\* when the path is empty.
logPerHour(config) ==
    LET powerMitigationStatsPath == getCStringOrDefault(config, "PowerMitigationStatsPath")
    IN  {ReporterCall("logPixelMmMetricsPerHour", ""), ReporterCall("logZramStats", "")}
        \cup (IF powerMitigationStatsPath = ""
              THEN {ReporterCall("logMitigationStatsPerHour", powerMitigationStatsPath)}
              ELSE {})

\* logBatteryChargeCycles: returns before reading when the path is empty.
logBatteryChargeCycles(config) ==
    LET cycleCountBinsPath == getCStringOrDefault(config, "CycleCountBinsPath")
    IN  IF cycleCountBinsPath = "" THEN {}
        ELSE {ReporterCall("reportChargeCycles", cycleCountBinsPath)}

\* The path guard of logBatteryEEPROM.
logBatteryEEPROMPath(config) ==
    LET EEPROMPath == getCStringOrDefault(config, "EEPROMPath")
    IN  IF EEPROMPath = "" THEN {}
        ELSE {ReporterCall("checkAndReport", EEPROMPath)}

\* reportSlowIoFromFile: returns before reading when the path is empty.
reportSlowIoFromFile(path) ==
    IF path = "" THEN {} ELSE {ReporterCall("reportSlowIo", path)}

logSlowIO(config) ==
    reportSlowIoFromFile(getCStringOrDefault(config, "SlowioReadCntPath"))

\* logMitigationDurationCounts: returns before the reporter when the path is
\* empty.
logMitigationDurationCounts(config) ==
    LET powerMitigationDurationPath ==
            getCStringOrDefault(config, "PowerMitigationDurationPath")
    IN  IF powerMitigationDurationPath = "" THEN {}
        ELSE {ReporterCall("logMitigationDuration", powerMitigationDurationPath)}

\* The path-guarded areas of logPerDay that are modelled.
logPerDayAreas(config) ==
    logBatteryChargeCycles(config) \cup logBatteryEEPROMPath(config)
        \cup logSlowIO(config) \cup logMitigationDurationCounts(config)

NoPass == [name |-> "none", stats_client |-> FALSE]

CfgIdle ==
    /\ configData = [key \in ConfigKeys |-> {}]
    /\ pass = NoPass
    /\ invoked = {}

LineIdle ==
    /\ historyLines = <<>>
    /\ atoms = {}

RestIdle == CfgIdle /\ LineIdle /\ ThermIdle /\ EstIdle /\ SupIdle /\ BktIdle /\ LockIdle

AreasInit ==
    /\ configData \in [ConfigKeys -> ConfigValues]
    /\ pass = NoPass
    /\ invoked = {}
    /\ LineIdle
    /\ ThermIdle
    /\ EstIdle
    /\ SupIdle
    /\ BktIdle
    /\ LockIdle

\* A pass: nothing is invoked when the stats service is not available.
Pass(name, reporterCalls) ==
    \E stats_client \in BOOLEAN :
        /\ pass' = [name |-> name, stats_client |-> stats_client]
        /\ invoked' = IF stats_client THEN reporterCalls ELSE {}
        /\ UNCHANGED <<configData, lineVars, thermVars, estVars, supVars, bktVars, lockVars, mgrVars, grpVars, recVars, statVars>>

LogOnce == Pass("logOnce", logBrownout(configData))

LogPerHour == Pass("logPerHour", logPerHour(configData))

LogPerDay == Pass("logPerDay", logPerDayAreas(configData))

(***************************************************************************)
(* SpecDispatch: the message loop on one batch.  The group has one channel *)
(* and its thread has just read the batch from it; the destructor may      *)
(* start at any point.                                                     *)
(***************************************************************************)
MaxBatch == 3

Batches == SeqsUpTo(Alphabet, MaxBatch) \ {<<>>}

DispatchLimits ==
    [groups |-> 1, ids |-> 1, writes |-> 0, owner |-> 1, batches |-> {}, tamper |-> FALSE]

DispatchInit ==
    LET made == createChannel(NewGroup(0), ClientTgid(1), ClientUid(1), TRUE)
    IN  /\ life = [g \in Groups |-> IF g = 0 THEN "live" ELSE "none"]
        /\ mDestructing = [g \in Groups |-> FALSE]
        /\ grp = [g \in Groups |-> IF g = 0 THEN made.group ELSE NewGroup(g)]
        /\ flag = [g \in Groups |->
                      IF g = 0 THEN getReadBitmask(made.channel) ELSE {}]
        /\ queue = [g \in Groups |-> [s \in Slots |-> EmptyQueue]]
        /\ \E batch \in Batches :
              thr = [g \in Groups |->
                        IF g = 0
                        THEN [IdleThread EXCEPT !.pc = "msg", !.messages = batch]
                        ELSE IdleThread]
        /\ calls = [g \in Groups |-> <<>>]
        /\ blocklist = {}
        /\ glimits = DispatchLimits
        /\ nWrites = 0
        /\ nOwner = 0

NextDispatch ==
    \/ ThreadMsg(0)
    \/ ThreadCoalesce(0)
    \/ DestructorBegin(0)

InitDispatch == MgrIdle /\ DispatchInit /\ RecIdle /\ StatIdle /\ RestIdle

SpecDispatch == InitDispatch /\ [][NextDispatch]_vars

(***************************************************************************)
(* SpecGroup: ChannelGroup objects with their owner, their dispatch        *)
(* threads and their clients.  SpecGroupFair adds what the scheduler       *)
(* gives: a thread that can take a step takes one, and so does a           *)
(* destructor that has started.                                            *)
(***************************************************************************)
MaxClients == 2         \* client identities that get a channel
MaxWrites == 2          \* client writes (tampering included)
MaxOwnerCalls == 4      \* constructions, createChannel, removeChannel, destructions

GroupBatches == {<<Msg(1, "hint", 1), Msg(2, "workDuration", 1)>>}

GroupLimits ==
    [groups |-> NumGroups, ids |-> MaxClients, writes |-> MaxWrites,
     owner |-> MaxOwnerCalls, batches |-> GroupBatches, tamper |-> TRUE]

\* the fair specification is explored in a smaller envelope
FairClients == 1
FairWrites == 1
FairOwnerCalls == 4

FairLimits ==
    [groups |-> NumGroups, ids |-> FairClients, writes |-> FairWrites,
     owner |-> FairOwnerCalls, batches |-> GroupBatches, tamper |-> TRUE]

GroupInit(envelope) ==
    /\ life = [g \in Groups |-> "none"]
    /\ mDestructing = [g \in Groups |-> FALSE]
    /\ grp = [g \in Groups |-> NewGroup(g)]
    /\ flag = [g \in Groups |-> {}]
    /\ queue = [g \in Groups |-> [s \in Slots |-> EmptyQueue]]
    /\ thr = [g \in Groups |-> IdleThread]
    /\ calls = [g \in Groups |-> <<>>]
    /\ blocklist = {}
    /\ glimits = envelope
    /\ nWrites = 0
    /\ nOwner = 0

InitGroup == MgrIdle /\ GroupInit(GroupLimits) /\ RecIdle /\ StatIdle /\ RestIdle

InitGroupFair == MgrIdle /\ GroupInit(FairLimits) /\ RecIdle /\ StatIdle /\ RestIdle

ThreadStep(g) ==
    \/ ThreadStart(g)
    \/ ThreadLoop(g)
    \/ ThreadWait(g)
    \/ ThreadWoken(g)
    \/ ThreadScan(g)
    \/ ThreadMsg(g)
    \/ ThreadCoalesce(g)

NextGroup ==
    \/ \E g \in Groups : Construct(g)
    \/ \E g \in Groups, i \in 1 .. MaxClients : CreateChannel(g, i)
    \/ \E g \in Groups, slot \in Slots : RemoveChannel(g, slot)
    \/ \E g \in Groups : DestructorBegin(g)
    \/ \E g \in Groups : DestructorWake(g)
    \/ \E g \in Groups : DestructorJoin(g)
    \/ \E g \in Groups : ThreadStart(g)
    \/ \E g \in Groups : ThreadLoop(g)
    \/ \E g \in Groups : ThreadWait(g)
    \/ \E g \in Groups : ThreadWoken(g)
    \/ \E g \in Groups : ThreadScan(g)
    \/ \E g \in Groups : ThreadMsg(g)
    \/ \E g \in Groups : ThreadCoalesce(g)
    \/ \E g \in Groups, slot \in Slots, batch \in GroupBatches : ClientWrite(g, slot, batch)
    \/ \E g \in Groups, slot \in Slots : ClientTamper(g, slot)

SpecGroup == InitGroup /\ [][NextGroup]_vars

SpecGroupFair ==
    /\ InitGroupFair
    /\ [][NextGroup]_vars
    /\ \A g \in Groups : WF_vars(ThreadStep(g))
    /\ \A g \in Groups : WF_vars(DestructorWake(g))
    /\ \A g \in Groups : WF_vars(DestructorJoin(g))

(***************************************************************************)
(* SpecRecords: one SessionRecords object and the calls made on it by a    *)
(* session whose target duration changes.  SpecFrames: the calls made by a *)
(* session that reports its frames with their time stamps.                 *)
(***************************************************************************)
InitRecords == MgrIdle /\ GrpIdle /\ RecordsInit(SwitchLimits) /\ StatIdle /\ RestIdle

NextRecords == AddReportedDurations \/ ResetRecords

SpecRecords == InitRecords /\ [][NextRecords]_vars

InitFrames == MgrIdle /\ GrpIdle /\ RecordsInit(JitterLimits) /\ StatIdle /\ RestIdle

NextFrames == AddReportedDurations \/ ResetRecords

SpecFrames == InitFrames /\ [][NextFrames]_vars

(***************************************************************************)
(* SpecCollect: the loop of SysfsCollector::collect.  SpecEEPROM: calls on *)
(* a BatteryEEPROMReporter at any times.  SpecFG: calls of reportFGEvent.  *)
(***************************************************************************)
InitCollect == MgrIdle /\ GrpIdle /\ RecIdle /\ CollectInit /\ RestIdle

NextCollect == CollectWake \/ CollectReadError

SpecCollect == InitCollect /\ [][NextCollect]_vars

InitEEPROM == MgrIdle /\ GrpIdle /\ RecIdle /\ StatIdle /\ RestIdle

NextEEPROM == Elapse \/ CheckAndReport \/ CheckAndReportValidation

SpecEEPROM == InitEEPROM /\ [][NextEEPROM]_vars

HistoryInit ==
    /\ historyLines \in SeqsUpTo(HistoryLines, MaxLines)
    /\ atoms = {}

InitThermal == MgrIdle /\ GrpIdle /\ RecIdle /\ StatIdle /\ RestIdle

NextThermal ==
    \/ RegisterPredictorSensor
    \/ RegisterPredictedSensor
    \/ UpdateSensor
    \/ ReadSensor
    \/ AdvanceClock

SpecThermal == InitThermal /\ [][NextThermal]_vars

InitTflite == MgrIdle /\ GrpIdle /\ RecIdle /\ StatIdle /\ CfgIdle /\ LineIdle /\ ThermIdle /\ SupIdle /\ BktIdle /\ LockIdle /\ TfliteInit

NextTflite == Initialize(1) \/ Estimate(1)

SpecTflite == InitTflite /\ [][NextTflite]_vars

InitLinear == MgrIdle /\ GrpIdle /\ RecIdle /\ StatIdle /\ CfgIdle /\ LineIdle /\ ThermIdle /\ SupIdle /\ BktIdle /\ LockIdle /\ LinearInit

NextLinear == \E id \in {1, 2, 3} : Initialize(id) \/ Estimate(id)

SpecLinear == InitLinear /\ [][NextLinear]_vars

InitSupport == MgrIdle /\ GrpIdle /\ RecIdle /\ StatIdle /\ CfgIdle /\ LineIdle /\ ThermIdle /\ EstIdle /\ BktIdle /\ LockIdle /\ SupportInit

NextSupport ==
    \/ ModeSupported
    \/ BoostSupported
    \/ SessionHintSupported
    \/ SessionModeSupported
    \/ SessionTagSupported

SpecSupport == InitSupport /\ [][NextSupport]_vars

InitBuckets == MgrIdle /\ GrpIdle /\ RecIdle /\ StatIdle /\ CfgIdle /\ LineIdle /\ ThermIdle /\ EstIdle /\ SupIdle /\ LockIdle /\ BucketsInit

NextBuckets == AddUpNewFrames

SpecBuckets == InitBuckets /\ [][NextBuckets]_vars

InitJitters == MgrIdle /\ GrpIdle /\ RecordsInit(EveryCallLimits) /\ StatIdle /\ RestIdle

NextJitters == AddReportedDurations \/ ResetRecords

SpecJitters == InitJitters /\ [][NextJitters]_vars

InitCalls == MgrIdle /\ GrpIdle /\ RecIdle /\ StatIdle /\ CfgIdle /\ LineIdle /\ ThermIdle /\ SupIdle /\ BktIdle /\ CallsInit

NextCalls ==
    \E c \in Callers :
        \/ \E id \in {1, 2} : InitializeCall(c, id) \/ EstimateCall(c, id)
        \/ Lock(c)
        \/ InitializeReturn(c)
        \/ EstimateReturn(c)

SpecCalls == InitCalls /\ [][NextCalls]_vars

\* the batch the clients write: one message, which the thread dispatches
\* through the message loop and the coalescing loop
ManagedBatches == {<<Msg(1, "workDuration", 1)>>}

ManagedLimits ==
    [groups |-> 2, ids |-> 0, writes |-> MaxManagedWrites, owner |-> MaxManagedCalls,
     batches |-> ManagedBatches, tamper |-> TRUE]

FairManagedLimits ==
    [groups |-> 2, ids |-> 0, writes |-> FairManagedWrites, owner |-> FairManagedCalls,
     batches |-> ManagedBatches, tamper |-> FALSE]

InitManaged == ManagedInit(ManagedLimits) /\ RecIdle /\ StatIdle /\ CfgIdle /\ LineIdle /\ ThermIdle /\ EstIdle /\ SupIdle /\ BktIdle

InitManagedFair == ManagedInit(FairManagedLimits) /\ RecIdle /\ StatIdle /\ CfgIdle /\ LineIdle /\ ThermIdle /\ EstIdle /\ SupIdle /\ BktIdle

ManagedStep(c) ==
    \/ ManagedLock(c)
    \/ ManagedGroupCall(c)
    \/ ManagedDestroyBegin(c)
    \/ ManagedDestroyWake(c)
    \/ ManagedDestroyJoin(c)

NextManaged ==
    \/ \E c \in ManagedCallers : ManagedCall(c, "getChannelConfig", ManagedIds)
    \/ \E c \in ManagedCallers, i \in CalledIds : ManagedCall(c, "closeChannel", i)
    \/ \E c \in ManagedCallers : ManagedLock(c)
    \/ \E c \in ManagedCallers : ManagedGroupCall(c)
    \/ \E c \in ManagedCallers : ManagedDestroyBegin(c)
    \/ \E c \in ManagedCallers : ManagedDestroyWake(c)
    \/ \E c \in ManagedCallers : ManagedDestroyJoin(c)
    \/ \E g \in ManagedGroups : ThreadStart(g)
    \/ \E g \in ManagedGroups : ThreadLoop(g)
    \/ \E g \in ManagedGroups : ThreadWait(g)
    \/ \E g \in ManagedGroups : ThreadWoken(g)
    \/ \E g \in ManagedGroups : ThreadScan(g)
    \/ \E g \in ManagedGroups : ThreadMsg(g)
    \/ \E g \in ManagedGroups : ThreadCoalesce(g)
    \/ \E batch \in ManagedBatches : ClientWrite(0, kMaxChannels - 1, batch)
    \/ \E batch \in ManagedBatches : ClientWrite(1, 0, batch)
    \/ ClientTamper(1, 0)

SpecManaged == InitManaged /\ [][NextManaged]_vars

\* the steps of the dispatch threads and of the threads in a manager call
ManagedProgress ==
    \/ \E g \in ManagedGroups : ThreadStep(g)
    \/ \E c \in ManagedCallers : ManagedStep(c)

\* the dispatch thread of g can take a step
ThreadCanStep(g) ==
    \/ thr[g].pc \in {"start", "loop", "woken", "scan", "msg", "coalesce"}
    \/ thr[g].pc = "wait" /\ flag[g] \cap kWriteBits # {}

\* the thread c can take a step of its manager call
CallCanStep(c) ==
    \/ mgrCalls[c].pc = "lockManager" /\ ManagerMutexFree(mgrCalls) /\ ~aborted
    \/ mgrCalls[c].pc = "lockGroup" /\ ~MutexHeldByThread(mgrCalls[c].g) /\ ~aborted
    \/ mgrCalls[c].pc \in {"destroy", "wake"}
    \/ mgrCalls[c].pc = "join" /\ thr[mgrCalls[c].g].pc = "exited"

\* ENABLED <<ManagedProgress>>_vars, written as a state predicate
CanProgress ==
    \/ \E g \in ManagedGroups : ThreadCanStep(g)
    \/ \E c \in ManagedCallers : CallCanStep(c)

\* CanProgress is the enabling condition of ManagedProgress (an invariant of
\* SpecManaged and of SpecManagedFair)
CanProgressIsEnabled == CanProgress <=> ENABLED <<ManagedProgress>>_vars

\* the calls made in the fair specification and the client that writes
NextManagedFair ==
    \/ \E c \in ManagedCallers : ManagedCall(c, "getChannelConfig", ManagedIds)
    \/ \E c \in ManagedCallers, i \in CalledIds : ManagedCall(c, "closeChannel", i)
    \/ ManagedProgress
    \/ \E batch \in ManagedBatches : ClientWrite(1, 0, batch)

\* What the scheduler gives: while a dispatch thread or a thread in a manager
\* call can take a step, one of them does.  This is WF_vars(ManagedProgress)
\* with the enabling condition written out.
SpecManagedFair ==
    /\ InitManagedFair
    /\ [][NextManagedFair]_vars
    /\ ([]<>(~CanProgress) \/ []<><<ManagedProgress>>_vars)

InitHistory == MgrIdle /\ GrpIdle /\ RecIdle /\ StatIdle /\ CfgIdle /\ ThermIdle /\ EstIdle /\ SupIdle /\ BktIdle /\ LockIdle /\ HistoryInit

NextHistory == CheckAndReportLines

SpecHistory == InitHistory /\ [][NextHistory]_vars

InitAreas == MgrIdle /\ GrpIdle /\ RecIdle /\ StatIdle /\ AreasInit

NextAreas == LogOnce \/ LogPerHour \/ LogPerDay

SpecAreas == InitAreas /\ [][NextAreas]_vars

InitFG == MgrIdle /\ GrpIdle /\ RecIdle /\ StatIdle /\ RestIdle

NextFG == Elapse \/ ReportFGEvent

SpecFG == InitFG /\ [][NextFG]_vars

Init == MgrInit /\ GrpIdle /\ RecIdle /\ StatIdle /\ RestIdle

Next == GetChannelConfig \/ CloseChannel

Spec == Init /\ [][Next]_vars

(***************************************************************************)
(* Claims about the ChannelManager (checked under Spec).                   *)
(***************************************************************************)
LiveSlots ==
    {p \in GroupIds \X Slots : mChannelGroups[p[1]].mChannels[p[2]] # Null}

ChannelAt(p) == mChannelGroups[p[1]].mChannels[p[2]]

KeyOf(i) == ChannelMapKey(Tgid(i), Uid(i))

FullGroups(groups) ==
    {g \in DOMAIN groups : GroupChannelCount(groups[g]) >= kMaxChannels}

\* C1: at most one live SessionChannel exists per (tgid, uid) identity, and
\* getChannelConfig for a registered identity resolves to the channel already
\* recorded for it, at its recorded (groupId, offset), without creating one.
C1_OneChannelPerIdentity ==
    /\ \A p, q \in LiveSlots :
          (ChannelAt(p).mTgid = ChannelAt(q).mTgid /\ ChannelAt(p).mUid = ChannelAt(q).mUid)
             => p = q
    /\ \A i \in registered :
          LET r == getOrCreateChannel(mChannelMap, mChannelGroups, Tgid(i), Uid(i), TRUE)
          IN  /\ KeyOf(i) \in DOMAIN mChannelMap
              /\ ~r.fatal /\ ~r.created
              /\ r.map = mChannelMap /\ r.groups = mChannelGroups
              /\ r.channel.mId = mChannelMap[KeyOf(i)]
              /\ r.channel.mTgid = Tgid(i) /\ r.channel.mUid = Uid(i)
              /\ mChannelMap[KeyOf(i)] \in LiveSlots
              /\ r.channel = ChannelAt(mChannelMap[KeyOf(i)])
    /\ Cardinality(LiveSlots) = Cardinality(registered)

\* a getChannelConfig call that found its identity registered, among several
C1_Witness ==
    /\ lastRet.op = "getChannelConfig" /\ lastRet.ok /\ ~lastRet.created
    /\ Cardinality(registered) >= 3
    /\ nCloses >= 1

\* C2: between operations, getChannelCount() is the number of distinct
\* identities registered through getChannelConfig and not closed since.
C2_ChannelCount == getChannelCount = Cardinality(registered)

C2_Witness ==
    /\ Cardinality(registered) >= 3
    /\ nCloses >= 2
    /\ lastRet.op = "closeChannel" /\ lastRet.ok

\* C3: a new identity goes to the lowest-id group with fewer than 16 live
\* channels, and a group is created only when no group has a free slot; the
\* first 16 identities share one group, 17 live identities need a second, and
\* registrations made while fewer than 16 are live in a single group never add
\* a group.
C3_PlacementStep ==
    \A i \in registered' \ registered :
        LET free == DOMAIN mChannelGroups \ FullGroups(mChannelGroups)
            g == groupIdOf(mChannelMap'[KeyOf(i)])
        IN  /\ KeyOf(i) \in DOMAIN mChannelMap'
            /\ IF free # {}
               THEN /\ g = MinOf(free)
                    /\ DOMAIN mChannelGroups' = DOMAIN mChannelGroups
               ELSE /\ g \notin DOMAIN mChannelGroups
                    /\ DOMAIN mChannelGroups' = DOMAIN mChannelGroups \cup {g}
            /\ (getGroupCount = 1 /\ Cardinality(registered) < kMaxChannels)
                  => Cardinality(DOMAIN mChannelGroups') = 1

C3_PlacementState ==
    /\ (nCloses = 0 /\ Cardinality(registered) \in 1 .. kMaxChannels) => getGroupCount = 1
    /\ Cardinality(registered) > kMaxChannels => getGroupCount > 1

C4_CloseStep ==
    \A i \in registered \ registered' :
        LET g == groupIdOf(mChannelMap[KeyOf(i)])
        IN  IF GroupChannelCount(mChannelGroups[g]) = 1
            THEN /\ DOMAIN mChannelGroups' = DOMAIN mChannelGroups \ {g}
                 /\ Cardinality(DOMAIN mChannelGroups') = getGroupCount - 1
            ELSE DOMAIN mChannelGroups' = DOMAIN mChannelGroups

C4_AllClosed == registered = {} => (getGroupCount = 0 /\ getChannelCount = 0)

C4_GroupTeardown == [](C4_AllClosed) /\ [][C4_CloseStep]_vars

\* the last of several identities has just been closed
C4_Witness ==
    /\ lastRet.op = "closeChannel" /\ lastRet.ok
    /\ registered = {}
    /\ nCloses >= 2

\* C5 as stated: every newly allocated group id is strictly greater than every
\* id allocated since the group map was last empty.
C5_Original ==
    [][\A g \in DOMAIN mChannelGroups' \ DOMAIN mChannelGroups :
          \A n \in 1 .. Len(allocated) : g > allocated[n]]_vars

\* C5 as amended: a registration that finds every live group full (or none
\* live) allocates exactly one group, whose id is strictly greater than the id
\* of every group live at that moment and 0 when none is live; no other step
\* allocates a group.
C5_AllocStep ==
    /\ \A g \in DOMAIN mChannelGroups' \ DOMAIN mChannelGroups :
          /\ \A h \in DOMAIN mChannelGroups : g > h
          /\ (DOMAIN mChannelGroups = {}) => g = 0
          /\ FullGroups(mChannelGroups) = DOMAIN mChannelGroups
    /\ (registered' \ registered # {}
        /\ FullGroups(mChannelGroups) = DOMAIN mChannelGroups)
          => Cardinality(DOMAIN mChannelGroups') = getGroupCount + 1

C5_FreshAmongLive == [][C5_AllocStep]_vars

\* the id of a destroyed group has been allocated again while a group is live
C5_Witness ==
    /\ getGroupCount >= 2
    /\ \E m, n \in 1 .. Len(allocated) : m < n /\ allocated[m] = allocated[n]

\* C9: a channel in slot o of its group, o in [0,16), has write mask 1<<o and
\* read mask 1<<(o+16); write masks lie in the low and read masks in the high
\* 16 bits, so no write mask shares a bit with any read mask.
C9_Masks ==
    /\ \A p \in LiveSlots :
          /\ p[2] \in 0 .. 15
          /\ offsetOf(ChannelAt(p).mId) = p[2]
          /\ getWriteBitmask(ChannelAt(p)) = {p[2]}
          /\ getReadBitmask(ChannelAt(p)) = {p[2] + 16}
          /\ getWriteBitmask(ChannelAt(p)) \subseteq kWriteBits
          /\ getReadBitmask(ChannelAt(p)) \subseteq kReadBits
    /\ \A p, q \in LiveSlots :
          getWriteBitmask(ChannelAt(p)) \cap getReadBitmask(ChannelAt(q)) = {}

\* a channel sits in the last slot, whose read bit is bit 31
C9_Witness ==
    \E p \in LiveSlots : p[2] = kMaxChannels - 1 /\ getReadBitmask(ChannelAt(p)) = {31}

(***************************************************************************)
(* Claims about the message loop (checked under SpecDispatch).             *)
(***************************************************************************)
\* the last index of the maximal run of workDuration messages of one session
\* that starts at index i (indices from 1)
RECURSIVE RunEnd(_, _)
RunEnd(msgs, i) ==
    IF /\ i < Len(msgs)
       /\ msgs[i + 1].tag = "workDuration"
       /\ msgs[i + 1].sessionID = msgs[i].sessionID
    THEN RunEnd(msgs, i + 1)
    ELSE i

\* one reportActualWorkDuration per maximal run of a session that resolves
RECURSIVE ExpectedReports(_, _)
ExpectedReports(msgs, i) ==
    IF i > Len(msgs) THEN <<>>
    ELSE IF msgs[i].tag # "workDuration" THEN ExpectedReports(msgs, i + 1)
    ELSE LET j == RunEnd(msgs, i)
             run == [k \in 1 .. (j - i + 1) |-> msgs[i + k - 1].data]
         IN  (IF getSession(msgs[i].sessionID)
              THEN <<Call(msgs[i].sessionID, "reportActualWorkDuration", run)>>
              ELSE <<>>) \o ExpectedReports(msgs, j + 1)

ReportCalls(log) == SelectSeq(log, LAMBDA c : c.call = "reportActualWorkDuration")

BatchDone(g) == thr[g].pc = "scan" /\ thr[g].messages # <<>>

\* C6: when the message loop has gone through a batch (and the group is not
\* being destroyed), the reportActualWorkDuration calls made are exactly one
\* per maximal contiguous run of workDuration messages of a session, each with
\* all the durations of its run in arrival order.
C6_CoalescedRuns ==
    (BatchDone(0) /\ ~mDestructing[0])
        => ReportCalls(calls[0]) = ExpectedReports(thr[0].messages, 1)

(***************************************************************************)
(* Claims about the dispatch thread, its blocklist and the destructor      *)
(* (checked under SpecGroup and SpecGroupFair).                            *)
(***************************************************************************)
\* the channel the thread of g is about to look at in its channel loop
ScannedChannel(g) == grp[g].mChannels[countr_zero(thr[g].flagState)]

\* the step is a queue read by the thread of g: a successful one hands the
\* batch to the message loop, a failed one adds to the blocklist
ReadStep(g) ==
    /\ thr[g].pc = "scan"
    /\ thr'[g] # thr[g]
    /\ thr'[g].pc = "msg" \/ blocklist' # blocklist

\* C7: once a queue read has failed and the channel's uid is in the blocklist,
\* no later wake of the group reads from a channel owned by that uid: every
\* read the thread makes is on a channel whose uid is not in the blocklist,
\* and no uid ever leaves the blocklist.
C7_BlocklistedNeverRead ==
    [][/\ blocklist \subseteq blocklist'
       /\ \A g \in Groups : ReadStep(g) => ScannedChannel(g).mUid \notin blocklist]_vars

\* a second channel of a blocklisted uid was woken with messages waiting, and
\* the thread has passed it over: its write bit is consumed, its messages are
\* still in the queue
C7_Witness ==
    \E g \in Groups, slot \in Slots :
        /\ grp[g].mChannels[slot] # Null
        /\ grp[g].mChannels[slot].mUid \in blocklist
        /\ ~queue[g][slot].corrupt
        /\ queue[g][slot].msgs # <<>>
        /\ thr[g].pc = "scan"
        /\ thr[g].channelNum = slot
        /\ slot \notin thr[g].flagState
        /\ slot \notin flag[g]

\* C8: whenever a ChannelGroup is destroyed, its thread exits and the
\* destructor's join returns, wherever the thread was and whether or not a
\* client ever sends a message.
C8_DestructorReturns ==
    \A g \in Groups : (life[g] = "destructing") ~> (life[g] = "none")

\* no client has ever written, the thread was blocked in the wait, and the
\* destructor's wake has brought it to its exit
C8_Witness ==
    \E g \in Groups :
        /\ life[g] = "joining"
        /\ thr[g].pc = "exited"
        /\ thr[g].synced
        /\ nWrites = 0

(***************************************************************************)
(* Claims about SessionRecords (checked under SpecRecords).                *)
(***************************************************************************)
\* C10: with n durations added since construction or the last resetRecords,
\* getNumOfRecords() is min(n, maxNumOfRecords), and the records held are the
\* last min(n, maxNumOfRecords) of them: a full ring gives up exactly its
\* oldest record to each new duration.
C10_NumOfRecords ==
    LET n == Len(added)
        k == records.kMaxNumOfRecords
        m == IF n < k THEN n ELSE k
    IN  /\ getNumOfRecords(records) = m
        /\ \A j \in 0 .. (m - 1) :
              records.mRecords[(records.mLatestRecordIndex + k - j) % k].totalDurationUs
                  = added[n - j]

\* after a reset the ring has been filled again and has evicted
C10_Witness ==
    /\ nResets > 0
    /\ nAdds > Len(added)
    /\ Len(added) > records.kMaxNumOfRecords
    /\ getNumOfRecords(records) = records.kMaxNumOfRecords

\* the durations of the records the ring holds: the last
\* min(n, maxNumOfRecords) of the n added
HeldCount == IF Len(added) < records.kMaxNumOfRecords THEN Len(added)
             ELSE records.kMaxNumOfRecords

HeldDurations == {added[Len(added) - j] : j \in 0 .. (HeldCount - 1)}

\* C11: with at least one record held, getMaxDuration() is the largest
\* totalDurationUs among the records held, and the front of the deque is the
\* index of a record with that duration; with no record it is absent.
C11_MaxDuration ==
    IF HeldCount = 0
    THEN getMaxDuration(records) = {}
    ELSE /\ getMaxDuration(records) = {MaxOf(HeldDurations)}
         /\ records.mRecordsIndQueue # <<>>
         /\ records.mRecords[Head(records.mRecordsIndQueue)].totalDurationUs
                = MaxOf(HeldDurations)

\* the largest duration added has left the ring and the maximum has dropped
C11_Witness ==
    /\ Len(added) > records.kMaxNumOfRecords
    /\ getMaxDuration(records) # {}
    /\ getMaxDuration(records) # {MaxOf({added[j] : j \in 1 .. Len(added)})}

\* the positions in the history of the records the ring holds
HeldPositions == (Len(added) - HeldCount + 1) .. Len(added)

\* the j-th duration added exceeded (targetDurationNs / 1000) * 1.5 when added
ExceededTarget(j) ==
    10 * added[j] > TruncDiv(addedRecords[j].targetDurationNs, 1000) * 15

\* C12: getNumOfMissedCycles() is the number of records held whose duration
\* exceeded (targetDurationNs / 1000) * jankCheckTimeFactor when they were
\* added, and it is never negative.
C12_MissedCycles ==
    /\ getNumOfMissedCycles(records) = Cardinality({j \in HeldPositions : ExceededTarget(j)})
    /\ getNumOfMissedCycles(records) >= 0

\* a missed cycle has left the ring, another is held, and one duration was
\* missed under one target and met under the other
C12_Witness ==
    /\ \E j \in 1 .. (Len(added) - HeldCount) : ExceededTarget(j)
    /\ getNumOfMissedCycles(records) > 0
    /\ \E i, j \in 1 .. Len(added) :
          added[i] = added[j] /\ ExceededTarget(i) /\ ~ExceededTarget(j)

\* the thresholds isLowFrameRate is asked with
FpsThresholds == {25, 100}

\* C13: after resetRecords(), until new durations are added, the aggregates
\* are zero and the deque is empty: no records, no maximum, no average, no
\* missed cycles, no FPS jitters, a zero rolling start-interval state, and
\* isLowFrameRate is false.
C13_ResetClears ==
    (nResets > 0 /\ added = <<>>) =>
        /\ getNumOfRecords(records) = 0
        /\ getMaxDuration(records) = {}
        /\ getAvgDuration(records) = {}
        /\ records.mRecordsIndQueue = <<>>
        /\ records.mSumOfDurationsUs = 0
        /\ getNumOfMissedCycles(records) = 0
        /\ getNumOfFPSJitters(records) = 0
        /\ records.mLatestStartIntervalSumUs = 0
        /\ records.mAddedFramesForFPSCheck = 0
        /\ \A fps \in FpsThresholds : ~isLowFrameRate(records, fps)

\* C14: getNumOfFPSJitters() is the number of records held that were
\* flagged as FPS jitter when added (so it drops when a flagged record is
\* evicted or discarded, and is 0 once none is held), and it is never
\* negative.
C14_FPSJitters ==
    /\ getNumOfFPSJitters(records)
           = Cardinality({j \in HeldPositions : addedRecords[j].record.isFPSJitter})
    /\ getNumOfFPSJitters(records) >= 0

\* C15: getLatestFPS() returns 0 whenever the rolling start-interval sum is
\* zero, as it is after a call of addReportedDurations without
\* computeFPSJitters.
C15_LatestFPSZero ==
    records.mLatestStartIntervalSumUs = 0 => getLatestFPS(records) = {Returned(0)}

\* the three records added last, as positions of the history
LatestThree == (Len(addedRecords) - 2) .. Len(addedRecords)

\* C16: isLowFrameRate(thresholdFps) is true exactly when at least 3 records
\* are stored and each of the 3 records added last has a startIntervalUs of
\* at least 1000000 / thresholdFps; with fewer than 3 records it is false.
C16_LowFrameRate ==
    \A thresholdFps \in FpsThresholds :
        isLowFrameRate(records, thresholdFps)
            <=> /\ HeldCount >= 3
                /\ \A j \in LatestThree :
                       addedRecords[j].record.startIntervalUs * thresholdFps >= 1000000

\* a low frame rate found in a ring that has wrapped, the three latest
\* records lying around the end of the ring
C16_Witness ==
    /\ Len(addedRecords) > records.kMaxNumOfRecords
    /\ records.mLatestRecordIndex < 2
    /\ isLowFrameRate(records, 25)

(***************************************************************************)
(* Claims about pixelstats (checked under SpecCollect, SpecEEPROM and      *)
(* SpecFG).                                                                *)
(***************************************************************************)
\* multiples of period that the count of elapsed ticks reached or passed in
\* the last loop iteration
PeriodsPassed(period) ==
    (elapsedTicks \div period) - ((elapsedTicks - expireCount) \div period)

\* C17, as stated: counting the ticks the timer reported since the loop was
\* entered, logPerHour is called for every 12th tick and logPerDay for every
\* 288th, also when one read reports several expirations, and after every
\* loop iteration the hourly counter is below 12 and the daily one below 288.
C17_EveryTwelfthTick ==
    /\ fired.logPerHour = PeriodsPassed(12)
    /\ fired.logPerDay = PeriodsPassed(288)
    /\ wake_hours < 12
    /\ wake_days < 288

\* C17, amended: a loop iteration calls logPerHour once if its read made the
\* count of elapsed ticks reach or pass a multiple of 12, however many
\* multiples it passed, and not otherwise (logPerDay: 288); after every loop
\* iteration the hourly counter is the count of ticks modulo 12 and the
\* daily counter the count modulo 288.
C17_OncePerIteration ==
    /\ fired.logPerHour = IF PeriodsPassed(12) > 0 THEN 1 ELSE 0
    /\ fired.logPerDay = IF PeriodsPassed(288) > 0 THEN 1 ELSE 0
    /\ wake_hours = elapsedTicks % 12
    /\ wake_days = elapsedTicks % 288

\* one read reports 30 expirations that pass several hours and the end of
\* the day: one call of each, and a daily counter that keeps the remainder
C17_Witness ==
    /\ expireCount = 30
    /\ PeriodsPassed(12) >= 2
    /\ fired.logPerHour = 1
    /\ fired.logPerDay = 1
    /\ wake_days > 0

\* C18: two checkAndReport calls that each report at least one history
\* record are at least kSecondsPerMonth (2592000 s) of boot time apart,
\* unless a validation event reset report_time_ between them.
C18_MonthlyThrottle ==
    \A g \in eepromCalls.gap : g.reset \/ g.secs >= 2592000

\* an upload that follows the one before with no reset in between
C18_Witness ==
    /\ eepromCalls.call = "checkAndReport"
    /\ eepromCalls.reported > 0
    /\ \E g \in eepromCalls.gap : ~g.reset

\* C19: a checkAndReportValidation call that reports a validation event
\* while last_hv_check_ is not 0 sets report_time_ to 0, and the next
\* checkAndReport call is not throttled and reports the history it reads; a
\* validation event reported while last_hv_check_ is 0 leaves report_time_
\* as it was.
C19_ValidationForcesReport ==
    /\ ( /\ eepromCalls.call = "checkAndReportValidation"
         /\ eepromCalls.reported > 0
         /\ eepromCalls.prevHvCheck # 0 ) => battery_EEPROM_reporter_.report_time_ = 0
    /\ ( /\ eepromCalls.call = "checkAndReportValidation"
         /\ eepromCalls.reported > 0
         /\ eepromCalls.prevHvCheck = 0 )
           => battery_EEPROM_reporter_.report_time_ = eepromCalls.prevReportTime
    /\ ( /\ eepromCalls.call = "checkAndReport"
         /\ eepromCalls.hvSeenAtCall = "later" )
           => /\ ~eepromCalls.throttled
              /\ eepromCalls.readable => eepromCalls.reported = eepromCalls.rows

\* a history uploaded less than a month after the upload before, because a
\* validation event came in between
C19_Witness ==
    /\ eepromCalls.call = "checkAndReport"
    /\ eepromCalls.hvSeenAtCall = "later"
    /\ eepromCalls.reported > 0
    /\ \E g \in eepromCalls.gap : g.reset /\ g.secs < kSecondsPerMonth

\* C20: a report with state 1 of a fuel-gauge event starts the trigger time
\* of that event if it is not running, and leaves a running trigger time as
\* it is.
C20_TriggerKept ==
    (fgCall.accepted /\ fgCall.state = 1)
        => ab_trigger_time_[fgCall.event]
               = IF fgCall.before = 0 THEN fgCall.at ELSE fgCall.before

\* C21: a report with state 0 of an event that was triggered reports as
\* duration the seconds since a trigger of the event that it clears, sets the
\* event's trigger time to 0, and leaves the trigger times of the other
\* events as they were.
C21_ClearReportsDuration ==
    (fgCall.accepted /\ fgCall.state = 0 /\ fgCall.since # {})
        => /\ fgCall.duration \in {fgCall.at - triggered : triggered \in fgCall.since}
           /\ ab_trigger_time_[fgCall.event] = 0
           /\ fgCall.othersKept

\* The areas of each pass: the key of the configured path and the reporter.
Area(pass_name, key, reporter) == [pass |-> pass_name, key |-> key, reporter |-> reporter]

Areas ==
    {Area("logOnce", "BrownoutCsvPath", "logBrownoutCsv"),
     Area("logPerHour", "PowerMitigationStatsPath", "logMitigationStatsPerHour"),
     Area("logPerDay", "CycleCountBinsPath", "reportChargeCycles"),
     Area("logPerDay", "EEPROMPath", "checkAndReport"),
     Area("logPerDay", "SlowioReadCntPath", "reportSlowIo"),
     Area("logPerDay", "PowerMitigationDurationPath", "logMitigationDuration")}

Invoked(reporter) == \E call \in invoked : call.reporter = reporter

\* C22: in a pass that has the stats service, the reporter of each area of
\* the pass is invoked exactly when the path of the area is configured, that
\* is not empty, in the JSON configuration.
C22_AreasGuardedByPath ==
    pass.stats_client
        => \A area \in Areas :
               area.pass = pass.name
                   => (Invoked(area.reporter)
                           <=> getCStringOrDefault(configData, area.key) # "")

\* a slot of the file whose line has tempco and rcomp0 both converted
\* to 0xFFFF
ErasedSlots ==
    {i \in DOMAIN historyLines :
        /\ historyLines[i].num >= 2
        /\ historyLines[i].tempco = 65535
        /\ historyLines[i].rcomp0 = 65535}

\* C23: checkAndReport reports no atom for a slot of the history file whose
\* line has tempco and rcomp0 both 0xFFFF.
C23_ErasedNotReported ==
    \A i \in ErasedSlots : \A atom \in atoms : atom.slot # i

\* a call that reported the record of one slot and skipped an erased one
C23_Witness ==
    /\ eepromCalls.call = "checkAndReport"
    /\ ErasedSlots # {}
    /\ atoms # {}
    /\ \E i \in ErasedSlots : historyLines[i].num = 6 /\ historyLines[i].tmp > 0

\* The readSensor call just made was on a registered predicted sensor whose
\* predictor is registered.
ReadOfPredicted ==
    /\ readCall.sensor_name \in DOMAIN predicted_sensors_
    /\ predicted_sensors_[readCall.sensor_name].linked_sensor \in DOMAIN predictor_sensors_

ReadPredicted == predicted_sensors_[readCall.sensor_name]

ReadPredictor == predictor_sensors_[ReadPredicted.linked_sensor]

\* the slots of the ring written by updateSensor
WrittenSlots == {i \in DOMAIN ReadPredictor.samples : ReadPredictor.samples[i].seq > 0}

\* the written slots whose age lies within the duration plus or minus the
\* tolerance
SlotsInWindow ==
    {i \in WrittenSlots :
        LET age == thermalNow - ReadPredictor.samples[i].timestamp
        IN  /\ age >= (ReadPredicted.duration - kToleranceIntervalMs) * UnitsPerMs
            /\ age <= (ReadPredicted.duration + kToleranceIntervalMs) * UnitsPerMs}

\* the written slots whose age in whole milliseconds lies within the window
SlotsInWindowMs ==
    {i \in WrittenSlots :
        LET age == (thermalNow - ReadPredictor.samples[i].timestamp) \div UnitsPerMs
        IN  /\ age >= ReadPredicted.duration - kToleranceIntervalMs
            /\ age <= ReadPredicted.duration + kToleranceIntervalMs}

\* the predicted sensor is registered at a multiple k of the sample duration
AtMultiple ==
    ReadPredicted.duration
        = ReadPredicted.prediction_index * ReadPredictor.sample_duration

\* C24 as stated: for a predicted sensor registered at duration k*D, readSensor
\* returns OKAY with the value at index k of every sample in the ring whose
\* age lies within k*D plus or minus 1000 ms.
C24_SampleInWindowReturned ==
    (ReadOfPredicted /\ AtMultiple)
        => \A i \in SlotsInWindow :
               /\ readCall.status = "OKAY"
               /\ readCall.temp
                      = ReadPredictor.samples[i].values[ReadPredicted.prediction_index]

\* C24: for a predicted sensor registered at duration k*D, when a sample in
\* the ring has an age within k*D plus or minus 1000 ms, readSensor returns
\* OKAY with the value at index k of the sample written last among those whose
\* age in whole milliseconds lies within the window.
C24_NewestInWindowReturned ==
    (ReadOfPredicted /\ AtMultiple /\ SlotsInWindow # {})
        => /\ readCall.status = "OKAY"
           /\ \E newest \in SlotsInWindowMs :
                  /\ \A i \in SlotsInWindowMs :
                         ReadPredictor.samples[i].seq <= ReadPredictor.samples[newest].seq
                  /\ readCall.temp
                         = ReadPredictor.samples[newest].values[ReadPredicted.prediction_index]

\* a read at index 1 that found the older of the two samples of the ring
C24_Witness ==
    /\ ReadOfPredicted /\ AtMultiple
    /\ ReadPredicted.prediction_index = 1
    /\ Cardinality(WrittenSlots) = 2
    /\ Cardinality(SlotsInWindow) = 1
    /\ \E i \in SlotsInWindow, j \in WrittenSlots :
           ReadPredictor.samples[i].seq < ReadPredictor.samples[j].seq
    /\ readCall.status = "OKAY"

\* C25: readSensor on a registered predicted sensor whose predictor is
\* registered returns UNDER_COLLECTING when no slot of the ring has an age
\* within the window, also when the predictor was never updated; ERROR is
\* returned only for a name not registered or a predictor not registered.
C25_UnderCollecting ==
    /\ (ReadOfPredicted /\ SlotsInWindowMs = {}) => readCall.status = "UNDER_COLLECTING"
    /\ readCall.status = "ERROR" => ~ReadOfPredicted

\* the estimators of the ML model that were initialized with input validation
ValidatingEstimators ==
    {id \in DOMAIN estimators :
        /\ estimators[id].type = "kUseMLModel"
        /\ estimators[id].is_initialized
        /\ estimators[id].input_range # <<>>}

\* the value lies within the range of its sensor
WithinRange(value, range) == range.min_threshold <= value /\ value <= range.max_threshold

FedAfterInitialize(estimator) ==
    /\ estimator.type = "kUseLinearModel"
    /\ estimator.is_initialized
    /\ \A step \in DOMAIN estimator.outputs :
           estimator.outputs[step][1] # "kVtEstimatorInitFailed"

\* C27: two estimators of the linear model initialized with the same data and
\* fed the same vectors up to a step have the same output at that step,
\* whatever was done with other estimators.
C27_SameOutputs ==
    \A a \in DOMAIN estimators, b \in DOMAIN estimators :
        (/\ FedAfterInitialize(estimators[a])
         /\ FedAfterInitialize(estimators[b])
         /\ estimators[a].inits = estimators[b].inits)
            => \A step \in DOMAIN estimators[a].fed \cap DOMAIN estimators[b].fed :
                   SubSeq(estimators[a].fed, 1, step) = SubSeq(estimators[b].fed, 1, step)
                       => estimators[a].outputs[step] = estimators[b].outputs[step]

\* C28: a query for a value whose earliest version in the table is above
\* IPower::version answers false, whatever HintManager has loaded, also for
\* LOW_POWER and for a value that names an ADPF profile.
C28_BelowEarliestUnsupported ==
    (supportCall.query # "none" /\ supportCall.earliest > IPowerVersion)
        => ~supportCall.supported

\* LOW_POWER, or a mode that is both a hint and an ADPF profile, queried below
\* its earliest version
C28_Witness ==
    /\ supportCall.query = "modeSupported"
    /\ supportCall.earliest > IPowerVersion
    /\ \/ supportCall.type = "LOW_POWER"
       \/ /\ supportCall.type = "GAME"
          /\ IsHintSupported(hintManager, "GAME")
          /\ IsAdpfProfileSupported(hintManager, "GAME")
    /\ ~supportCall.supported

FieldsOfBuckets ==
    {"totalNumOfFrames", "numOfFrames17to25ms", "numOfFrames25to34ms",
     "numOfFrames34to67ms", "numOfFrames67to100ms", "numOfFramesOver100ms"}

\* C29: after A.addUpNewFrames(B) each of the six fields of A is the sum of
\* that field of A and of B before the call, and B is as it was.
C29_AddUpSums ==
    addUpCall.a # 0 =>
        /\ \A f \in FieldsOfBuckets :
              bucketObjs[addUpCall.a][f]
                  = addUpCall.before[addUpCall.a][f] + addUpCall.before[addUpCall.b][f]
        /\ bucketObjs[addUpCall.b] = addUpCall.before[addUpCall.b]

\* a call in which both objects held jank frames and frames that were not
C29_Witness ==
    /\ addUpCall.a # 0
    /\ \A id \in BucketIds :
          /\ addUpCall.before[id].numOfFramesOver100ms > 0
          /\ addUpCall.before[id].numOfFrames17to25ms > 0
          /\ addUpCall.before[id].totalNumOfFrames > JankFrames(addUpCall.before[id])
    /\ bucketObjs[addUpCall.a].numOfFramesOver100ms >= 3

\* the session calls of a batch in which every message of a session that
\* resolves is dispatched once by its tag, a run of workDuration messages as
\* one report (checked under SpecDispatch)
RECURSIVE ExpectedDispatch(_, _)
ExpectedDispatch(msgs, i) ==
    IF i > Len(msgs) THEN <<>>
    ELSE IF ~getSession(msgs[i].sessionID) THEN ExpectedDispatch(msgs, i + 1)
    ELSE IF msgs[i].tag # "workDuration"
    THEN CallOf(msgs[i]) \o ExpectedDispatch(msgs, i + 1)
    ELSE LET j == RunEnd(msgs, i)
             run == [k \in 1 .. (j - i + 1) |-> msgs[i + k - 1].data]
         IN  <<Call(msgs[i].sessionID, "reportActualWorkDuration", run)>>
                 \o ExpectedDispatch(msgs, j + 1)

\* C30: when the message loop has gone through a batch (and the group is not
\* being destroyed), every message of a session that resolves has been
\* dispatched to that session exactly once by its tag, in order, the message
\* after a coalesced run of workDuration messages included.
C30_EveryMessageDispatched ==
    (BatchDone(0) /\ ~mDestructing[0])
        => calls[0] = ExpectedDispatch(thr[0].messages, 1)

\* C31: no sequence of getChannelConfig and closeChannel calls reaches a fatal
\* abort of a ChannelGroup: createChannel is not called on a group with 16
\* live channels, getChannel is not called for an empty slot or for a group id
\* that is not in the group map (checked under Spec).
C31_NoFatalAbort ==
    /\ ~aborted
    /\ \A key \in DOMAIN mChannelMap :
          /\ groupIdOf(mChannelMap[key]) \in DOMAIN mChannelGroups
          /\ ~getChannel(mChannelGroups[groupIdOf(mChannelMap[key])],
                         offsetOf(mChannelMap[key])).fatal
    /\ FindGroup(mChannelGroups) # -1
          => FirstFreeSlot(mChannelGroups[FindGroup(mChannelGroups)]) # kMaxChannels

\* a channel was closed, a group is full, a second group holds a channel, and
\* the last call looked up an identity that has a channel
C31_Witness ==
    /\ nCloses > 0
    /\ \E g \in DOMAIN mChannelGroups : GroupChannelCount(mChannelGroups[g]) = kMaxChannels
    /\ Cardinality(DOMAIN mChannelGroups) = 2
    /\ lastRet = [op |-> "getChannelConfig", ok |-> TRUE, created |-> FALSE]

\* C38: a getChannelConfig that returns false because the channel it made is
\* invalid leaves getChannelCount() and getGroupCount() as they were, and the
\* identity without an entry in the channel map (checked under Spec).
C38_InvalidLeftUnregistered ==
    [][(lastRet'.op = "getChannelConfig" /\ lastRet'.created /\ ~lastRet'.ok)
          => /\ getChannelCount' = getChannelCount
             /\ getGroupCount' = getGroupCount
             /\ DOMAIN mChannelMap' = DOMAIN mChannelMap]_vars

\* C35: when the thread dispatches a message of a batch to a session, the read
\* bit of the channel the batch was read from has been signalled on the
\* group's event flag (checked under SpecGroup).
C35_ReadBitBeforeDispatch ==
    [][\A g \in Groups :
          Len(calls'[g]) > Len(calls[g])
              => /\ thr[g].pc \in {"msg", "coalesce"}
                 /\ (thr[g].channelNum + 16) \in flag[g]]_vars

\* the thread has dispatched the first message of a batch of two and the read
\* bit of the channel is set
C35_Witness ==
    \E g \in Groups :
        /\ thr[g].pc = "msg"
        /\ Len(thr[g].messages) = 2
        /\ thr[g].messageIndex = 1
        /\ Len(calls[g]) = 1
        /\ (thr[g].channelNum + 16) \in flag[g]

\* the start intervals of the last n of the records written
RECURSIVE SumOfLastIntervals(_, _)
SumOfLastIntervals(written, n) ==
    IF n = 0 \/ written = <<>> THEN 0
    ELSE written[Len(written)].record.startIntervalUs
             + SumOfLastIntervals(SubSeq(written, 1, Len(written) - 1), n - 1)

\* C40: with computeFPSJitters asked for on every call, once
\* kTotalFramesForFPSCheck intervals are counted the rolling sum is the sum of
\* the start intervals of the three records added last (checked under
\* SpecJitters).
C40_RollingSum ==
    (records.mAddedFramesForFPSCheck >= kTotalFramesForFPSCheck
        /\ Len(addedRecords) >= kTotalFramesForFPSCheck)
        => records.mLatestStartIntervalSumUs
               = SumOfLastIntervals(addedRecords, kTotalFramesForFPSCheck)

\* C39: no Estimate reads or writes the shared state of an estimator while an
\* Initialize on that estimator is in its locked body: a step in which an
\* Estimate call reads fields with no lock held, or runs its body, is not
\* taken while an Initialize holds the mutex of the same estimator (checked
\* under SpecCalls).
C39_MutuallyExclusive ==
    [][\A c \in Callers :
          (\/ /\ estCalls[c].pc = "idle"
              /\ estCalls'[c].op = "Estimate"
              /\ estCalls'[c].unlocked # {}
           \/ /\ estCalls[c].op = "Estimate"
              /\ estCalls[c].pc = "held"
              /\ estCalls'[c].pc = "idle")
              => ~Initializing(estCalls, IF estCalls[c].pc = "idle" THEN estCalls'[c].id
                                         ELSE estCalls[c].id)]_vars

\* the group the call of a thread waiting for mChannelManagerMutex is for
TargetGroup(call) ==
    LET key == ChannelMapKey(Tgid(call.i), Uid(call.i))
    IN  IF KeyPresent(mChannelMap, key) THEN groupIdOf(mChannelMap[key]) ELSE -1

\* C32: mChannelManagerMutex is not held by a call that waits for the mutex
\* of a group whose thread is dispatching messages while another thread
\* waits for the manager mutex with a call for a different group (checked
\* under SpecManaged).
C32_OtherGroupsNotDelayed ==
    \A c \in ManagedCallers, d \in ManagedCallers :
        ~(/\ mgrCalls[c].pc = "lockGroup"
          /\ thr[mgrCalls[c].g].pc \in {"msg", "coalesce"}
          /\ mgrCalls[d].pc = "lockManager"
          /\ TargetGroup(mgrCalls[d]) \in ManagedGroups \ {mgrCalls[c].g})

\* the next step of the thread of g tests the blocklist for a channel's uid
AccessesBlocklist(g) ==
    LET channelNum == countr_zero(thr[g].flagState)
    IN  /\ thr[g].pc = "scan"
        /\ ~mDestructing[g]
        /\ channelNum < kMaxChannels
        /\ grp[g].mChannels[channelNum] # Null
        /\ isValid(grp[g].mChannels[channelNum])

\* C33: a thread that is about to read or modify the blocklist holds the
\* mutex of its own group, and no two threads are about to access it at the
\* same time (checked under SpecManaged).
C33_BlocklistExclusive ==
    /\ \A g \in ManagedGroups : AccessesBlocklist(g) => MutexHeldByThread(g)
    /\ \A g \in ManagedGroups, h \in ManagedGroups :
          g # h => ~(AccessesBlocklist(g) /\ AccessesBlocklist(h))

\* C34: a thread passes over a channel that has messages because of the
\* blocklist only for a uid that this thread, in this lifetime of its group,
\* has blocklisted itself (checked under SpecManaged).
C34_BlocklistScopedToGroup ==
    [][\A g \in ManagedGroups :
          LET channelNum == countr_zero(thr[g].flagState)
              channel == grp[g].mChannels[channelNum]
          IN  (/\ thr[g].pc = "scan"
               /\ thr'[g].pc = "scan"
               /\ thr'[g].flagState # thr[g].flagState
               /\ channelNum < kMaxChannels
               /\ channel # Null
               /\ isValid(channel)
               /\ Blocked(channel.mUid, blocklist)
               /\ availableToRead(queue[g][channelNum]) > 0)
                  => channel.mUid \in thr[g].inserted]_vars

\* C36: every change of a group's mLiveChannels is made by a call that holds
\* mChannelManagerMutex, and no other call holds it then (checked under
\* SpecManaged).
C36_CountChangesUnderManagerMutex ==
    [][\A g \in ManagedGroups :
          grp'[g].mLiveChannels # grp[g].mLiveChannels
              => \E c \in ManagedCallers :
                    /\ HoldsManagerMutex(mgrCalls[c])
                    /\ mgrCalls[c].g = g
                    /\ \A d \in ManagedCallers \ {c} : ~HoldsManagerMutex(mgrCalls[d])]_vars

\* a closeChannel has removed a channel, and a getChannelConfig that holds
\* the manager mutex is about to create one
C36_Witness ==
    /\ nCloses > 0
    /\ \E c \in ManagedCallers :
          /\ mgrCalls[c].pc = "lockGroup"
          /\ mgrCalls[c].op = "getChannelConfig"
          /\ grp[mgrCalls[c].g].mLiveChannels < kMaxChannels
          /\ TargetGroup(mgrCalls[c]) = -1

\* C37: every getChannelConfig and closeChannel call that was made returns,
\* which releases mChannelManagerMutex (checked under SpecManagedFair).
C37_EveryCallReturns ==
    \A c \in ManagedCallers : (mgrCalls[c].pc # "idle") ~> (mgrCalls[c].pc = "idle")

\* a closeChannel that destroys a group waits in join for a thread that
\* holds the mutex of the group, while the other thread waits for the manager
\* mutex
C37_Witness ==
    \E c \in ManagedCallers, d \in ManagedCallers :
        /\ mgrCalls[c].pc = "join"
        /\ thr[mgrCalls[c].g].pc = "scan"
        /\ mgrCalls[d].pc = "lockManager"

=============================================================================
